---- MODULE Spec2Model ----
(***************************************************************************)
(* Telephony event reconciliation of the DMS CRM backend: the Smartflo     *)
(* webhook controller (handleCallEvents, handleInboundCall), the status    *)
(* normaliser, the HMAC signature verifiers, the persisted CallLog / Entry *)
(* collections with their schema validation, and the shared cache.         *)
(*                                                                         *)
(* JavaScript values are modelled as strings; the absent value             *)
(* (undefined) is UNDEF and null is NULL.  Numeric payload fields arrive   *)
(* as numerals and are converted by ParseInt.                              *)
(***************************************************************************)
EXTENDS Integers, Sequences, FiniteSets, TLC

VARIABLES
    env,        \* process.env: NODE_ENV and the webhook secrets
    users,      \* User collection (never written by the webhook handlers)
    leads,      \* Entry collection, a sequence; a lead's _id is its index
    callLogs,   \* CallLog collection, a sequence; a record's _id is its index
    cache,      \* keys held by the shared node-cache instance
    timers,     \* CallLog ids with a pending deferred recording fetch
    rateLimit,  \* the value the cache holds under the sender's rate_limit_ key
    now,        \* Date.now(), in milliseconds
    hs,         \* one record per webhook delivery: position and locals of its handler
    probe       \* argument and result of the pure function under check

vars == <<env, users, leads, callLogs, cache, timers, rateLimit, now, hs, probe>>

UNDEF == "undefined"
NULL == "null"

\* JavaScript truthiness of a string-or-absent value.
Truthy(v) == v \notin {UNDEF, NULL, ""}

\* a || b
Or(a, b) == IF Truthy(a) THEN a ELSE b

(***************************************************************************)
(* Status normaliser                                                       *)
(***************************************************************************)

StatusMapKeys ==
    << "call.initiated", "call.ringing", "call.answered", "call.completed",
       "call.failed", "call.no_answer", "call.busy", "call.cancelled",
       "initiated", "ringing", "answered", "completed",
       "failed", "no_answer", "busy", "cancelled",
       "answer", "pickup", "connected", "hangup",
       "end", "finished", "noanswer", "timeout",
       "reject", "error", "declined", "unreachable" >>

StatusMapValues ==
    << "initiated", "ringing", "answered", "completed",
       "failed", "no_answer", "busy", "cancelled",
       "initiated", "ringing", "answered", "completed",
       "failed", "no_answer", "busy", "cancelled",
       "answered", "answered", "answered", "completed",
       "completed", "completed", "no_answer", "no_answer",
       "failed", "failed", "failed", "failed" >>

CasedForms ==
    << <<"CALL.INITIATED", "call.initiated">>, <<"Call.Initiated", "call.initiated">>, <<"CALL.RINGING", "call.ringing">>,
       <<"Call.Ringing", "call.ringing">>, <<"CALL.ANSWERED", "call.answered">>, <<"Call.Answered", "call.answered">>,
       <<"CALL.COMPLETED", "call.completed">>, <<"Call.Completed", "call.completed">>, <<"CALL.FAILED", "call.failed">>,
       <<"Call.Failed", "call.failed">>, <<"CALL.NO_ANSWER", "call.no_answer">>, <<"Call.No_answer", "call.no_answer">>,
       <<"CALL.BUSY", "call.busy">>, <<"Call.Busy", "call.busy">>, <<"CALL.CANCELLED", "call.cancelled">>,
       <<"Call.Cancelled", "call.cancelled">>, <<"INITIATED", "initiated">>, <<"Initiated", "initiated">>,
       <<"RINGING", "ringing">>, <<"Ringing", "ringing">>, <<"ANSWERED", "answered">>,
       <<"Answered", "answered">>, <<"COMPLETED", "completed">>, <<"Completed", "completed">>,
       <<"FAILED", "failed">>, <<"Failed", "failed">>, <<"NO_ANSWER", "no_answer">>,
       <<"No_answer", "no_answer">>, <<"BUSY", "busy">>, <<"Busy", "busy">>,
       <<"CANCELLED", "cancelled">>, <<"Cancelled", "cancelled">>, <<"ANSWER", "answer">>,
       <<"Answer", "answer">>, <<"PICKUP", "pickup">>, <<"Pickup", "pickup">>,
       <<"CONNECTED", "connected">>, <<"Connected", "connected">>, <<"HANGUP", "hangup">>,
       <<"Hangup", "hangup">>, <<"END", "end">>, <<"End", "end">>,
       <<"FINISHED", "finished">>, <<"Finished", "finished">>, <<"NOANSWER", "noanswer">>,
       <<"Noanswer", "noanswer">>, <<"TIMEOUT", "timeout">>, <<"Timeout", "timeout">>,
       <<"REJECT", "reject">>, <<"Reject", "reject">>, <<"ERROR", "error">>,
       <<"Error", "error">>, <<"DECLINED", "declined">>, <<"Declined", "declined">>,
       <<"UNREACHABLE", "unreachable">>, <<"Unreachable", "unreachable">>, <<"XYZ_UNEXPECTED", "xyz_unexpected">>,
       <<"Xyz_unexpected", "xyz_unexpected">>, <<"CONSTRUCTOR", "constructor">>, <<"Constructor", "constructor">>,
       <<"__PROTO__", "__proto__">>, <<"IN_PROGRESS", "in_progress">>, <<"In_progress", "in_progress">>,
       <<"toString", "tostring">>, <<"valueOf", "valueof">>, <<"hasOwnProperty", "hasownproperty">>,
       <<"isPrototypeOf", "isprototypeof">>, <<"propertyIsEnumerable", "propertyisenumerable">>,
       <<"toLocaleString", "tolocalestring">> >>

\* String.prototype.toLowerCase over the model's vocabulary: every string of
\* the vocabulary that is not already lower case is listed with its lower case.
ToLowerCase(s) ==
    IF \E i \in 1..Len(CasedForms) : CasedForms[i][1] = s
    THEN LET i == CHOOSE j \in 1..Len(CasedForms) : CasedForms[j][1] = s
         IN CasedForms[i][2]
    ELSE s

\* Properties every object literal inherits from Object.prototype.
ObjectPrototypeKeys ==
    { "constructor", "__proto__", "toString", "valueOf", "hasOwnProperty",
      "isPrototypeOf", "propertyIsEnumerable", "toLocaleString" }

\* What an inherited property evaluates to: a function or object, not a string.
INHERITED == "[object Object.prototype member]"

\* statusMap[status]: own property, else inherited property, else undefined.
StatusMapLookup(status) ==
    IF \E i \in 1..Len(StatusMapKeys) : StatusMapKeys[i] = status
    THEN LET i == CHOOSE j \in 1..Len(StatusMapKeys) : StatusMapKeys[j] = status
         IN StatusMapValues[i]
    ELSE IF status \in ObjectPrototypeKeys THEN INHERITED
    ELSE UNDEF

mapSmartfloStatus(smartfloStatus) ==
    IF ~Truthy(smartfloStatus) THEN "initiated"
    ELSE LET found == StatusMapLookup(ToLowerCase(smartfloStatus))
         IN Or(found, "initiated")

CanonicalStatuses ==
    { "initiated", "ringing", "answered", "completed",
      "failed", "no_answer", "busy", "cancelled" }

(***************************************************************************)
(* JSON serialisation and HMAC                                             *)
(*                                                                         *)
(* A JSON object is the sequence of its members in body order; a member is *)
(* [k, t, v, o]: key, "atom" or "obj", the atom's text, the nested         *)
(* object's members.  A serialisation is a sequence of tokens.             *)
(***************************************************************************)

Atom(key, val) == [k |-> key, t |-> "atom", v |-> val, o |-> <<>>]
Obj(key, members) == [k |-> key, t |-> "obj", v |-> "", o |-> members]

\* Property names of the model's payloads, in code-unit (sort()) order.
JsonKeys ==
    << "agent_number", "call_direction", "call_id", "call_status",
       "call_to_number", "call_type", "called_number", "caller_id",
       "caller_id_number", "caller_number", "custom_identifier",
       "destination_number", "direction", "disposition", "duration",
       "end_time", "event_type", "inbound", "ivr_data", "queue_id",
       "queue_wait_time", "reason", "recording_url", "start_time",
       "transfer_data", "virtual_number" >>

\* Object.keys(payload).sort(): the top-level keys in ascending order.
RECURSIVE SortedFrom(_, _)
SortedFrom(keys, i) ==
    IF i > Len(JsonKeys) THEN <<>>
    ELSE (IF JsonKeys[i] \in keys THEN <<JsonKeys[i]>> ELSE <<>>)
         \o SortedFrom(keys, i + 1)

SortedKeys(members) == SortedFrom({ members[i].k : i \in 1..Len(members) }, 1)

RECURSIVE Indent(_)
Indent(depth) == IF depth = 0 THEN <<>> ELSE <<"  ">> \o Indent(depth - 1)

\* JSON.stringify(value) and JSON.stringify(value, null, 0).
RECURSIVE StringifyCompact(_), CompactMembers(_, _)
CompactMembers(members, i) ==
    IF i > Len(members) THEN <<>>
    ELSE (IF i > 1 THEN <<",">> ELSE <<>>)
         \o <<members[i].k, ":">>
         \o (IF members[i].t = "obj" THEN StringifyCompact(members[i].o)
             ELSE <<members[i].v>>)
         \o CompactMembers(members, i + 1)
StringifyCompact(members) == <<"{">> \o CompactMembers(members, 1) \o <<"}">>

\* JSON.stringify(value, null, 2): an empty object is still "{}".
RECURSIVE StringifyPretty(_, _), PrettyMembers(_, _, _)
PrettyMembers(members, i, depth) ==
    IF i > Len(members) THEN <<>>
    ELSE (IF i > 1 THEN <<",", "\n">> ELSE <<>>)
         \o Indent(depth)
         \o <<members[i].k, ":", " ">>
         \o (IF members[i].t = "obj" THEN StringifyPretty(members[i].o, depth)
             ELSE <<members[i].v>>)
         \o PrettyMembers(members, i + 1, depth)
StringifyPretty(members, depth) ==
    IF Len(members) = 0 THEN <<"{", "}">>
    ELSE <<"{", "\n">> \o PrettyMembers(members, 1, depth + 1)
         \o <<"\n">> \o Indent(depth) \o <<"}">>

\* JSON.stringify(value, keyList): at every depth only the properties named
\* in keyList are written, in keyList's order.
RECURSIVE StringifyWithKeys(_, _), KeyedMembers(_, _, _, _)
KeyedMembers(members, keyList, j, first) ==
    IF j > Len(keyList) THEN <<>>
    ELSE IF \E i \in 1..Len(members) : members[i].k = keyList[j]
         THEN LET m == members[CHOOSE i \in 1..Len(members) : members[i].k = keyList[j]]
              IN (IF first THEN <<>> ELSE <<",">>)
                 \o <<m.k, ":">>
                 \o (IF m.t = "obj" THEN StringifyWithKeys(m.o, keyList) ELSE <<m.v>>)
                 \o KeyedMembers(members, keyList, j + 1, FALSE)
         ELSE KeyedMembers(members, keyList, j + 1, first)
StringifyWithKeys(members, keyList) ==
    <<"{">> \o KeyedMembers(members, keyList, 1, TRUE) \o <<"}">>

\* Bytes of a digest in the model; SHA-256 has 32.
HashBytes == 2
HashLen == 2 * HashBytes

HexDigits == << "0", "1", "2", "3", "4", "5", "6", "7",
                "8", "9", "a", "b", "c", "d", "e", "f" >>

RECURSIVE Pow16(_)
Pow16(n) == IF n = 0 THEN 1 ELSE 16 * Pow16(n - 1)

\* digest('hex'): HashLen lower-case hex digits, most significant first.
RECURSIVE HexOf(_, _)
HexOf(n, width) ==
    IF width = 0 THEN <<>>
    ELSE HexOf(n \div 16, width - 1) \o <<HexDigits[(n % 16) + 1]>>

\* The strings that occur as atoms of the model's payloads.
JsonAtoms ==
    << "c1", "c2", "p1", "p2", "p3", "a1", "a2", "v1", "v2", "q1", "q2", "r",
       "42", "95", "5", "7", "abc", "inbound", "outbound", "INBOUND", "true", "true!",
       "ringing", "completed", "answered", "no_answer", "failed", "initiated",
       "call.initiated", "call.completed", "inbound.call", "constructor",
       "t1", "t2", "u1", "url1", "url2", "d1", "d2", "CRM_1_u2_7", "CRM_1_7",
       "c3", "" >>

JsonPunctuation == << "{", "}", ":", ",", "\n", " ", "  " >>

Vocabulary == JsonPunctuation \o JsonKeys \o JsonAtoms

TokenCode(tok) == CHOOSE i \in 1..Len(Vocabulary) : Vocabulary[i] = tok

Secrets == << "outbound-secret", "inbound-secret", "shared-secret", "wrong-secret" >>

SecretCode(secret) == CHOOSE i \in 1..Len(Secrets) : Secrets[i] = secret

\* crypto.createHmac('sha256', secret).update(text).digest('hex').  SHA-256 is
\* replaced by a keyed polynomial hash of HashBytes bytes: a function of the
\* key and of every token, whose digests share prefixes now and then.
RECURSIVE HmacFold(_, _, _)
HmacFold(acc, text, i) ==
    IF i > Len(text) THEN acc
    ELSE HmacFold((acc * 31 + TokenCode(text[i]) * 7 + i) % Pow16(HashLen), text, i + 1)

Hmac(secret, text) ==
    HexOf(HmacFold(SecretCode(secret) * 977, text, 1), HashLen)

HexValue(c) ==
    IF \E d \in 1..16 : HexDigits[d] = c
    THEN (CHOOSE d \in 1..16 : HexDigits[d] = c) - 1
    ELSE CASE c = "A" -> 10 [] c = "B" -> 11 [] c = "C" -> 12
           [] c = "D" -> 13 [] c = "E" -> 14 [] c = "F" -> 15
           [] OTHER -> -1

\* Buffer.from(text, 'hex'): whole byte pairs up to the first character that
\* is not a hex digit.
RECURSIVE HexDecode(_, _)
HexDecode(text, i) ==
    IF i + 1 > Len(text) THEN <<>>
    ELSE IF HexValue(text[i]) < 0 \/ HexValue(text[i + 1]) < 0 THEN <<>>
    ELSE <<16 * HexValue(text[i]) + HexValue(text[i + 1])>> \o HexDecode(text, i + 2)

\* crypto.timingSafeEqual(a, b): throws a RangeError on buffers of different
\* length, which the verifier's catch turns into false.
timingSafeEqual(a, b) == Len(a) = Len(b) /\ a = b

SHA256_PREFIX == "sha256="

\* signature.startsWith('sha256=') ? signature.substring(7) : signature
NormalizeSignature(signature) ==
    IF Len(signature) > 0 /\ Head(signature) = SHA256_PREFIX
    THEN Tail(signature) ELSE signature

\* hash.substring(0, n)
Substring0(text, n) == SubSeq(text, 1, IF n < Len(text) THEN n ELSE Len(text))

\* The three serialisations of the length-mismatch path.
alternativePayloads(payload) ==
    << StringifyCompact(payload),
       StringifyPretty(payload, 0),
       StringifyWithKeys(payload, SortedKeys(payload)) >>

MutVerifyKeepPrefix(secret, signature, payload) ==
    IF ~Truthy(secret) THEN TRUE
    ELSE IF Len(signature) = 0 THEN FALSE
    ELSE LET hash == Hmac(secret, StringifyCompact(payload))
         IN IF Len(signature) # Len(hash)
            THEN (Len(signature) < Len(hash) /\ signature = Substring0(hash, Len(signature)))
            ELSE timingSafeEqual(HexDecode(signature, 1), HexDecode(hash, 1))

\* Body shared by verifyOutboundWebhookSignature and
\* verifyInboundWebhookSignature, which differ in the secret they read.
\* An absent header and an empty header are both the empty sequence.
VerifySignature(secret, signature, payload) ==
    IF ~Truthy(secret) THEN TRUE
    ELSE IF Len(signature) = 0 THEN FALSE
    ELSE LET hash == Hmac(secret, StringifyCompact(payload))
             normalizedSignature == NormalizeSignature(signature)
             n == Len(normalizedSignature)
             alts == alternativePayloads(payload)
         IN IF n # Len(hash)
            THEN \/ (n < Len(hash) /\ normalizedSignature = Substring0(hash, n))
                 \/ \E a \in 1..Len(alts) :
                        LET altHash == Hmac(secret, alts[a])
                        IN \/ normalizedSignature = Substring0(altHash, n)
                           \/ normalizedSignature = altHash
            ELSE timingSafeEqual(HexDecode(normalizedSignature, 1), HexDecode(hash, 1))

\* processEnv is process.env.
verifyOutboundWebhookSignature(processEnv, signature, payload) ==
    VerifySignature(Or(processEnv.SMARTFLO_OUTBOUND_WEBHOOK_SECRET,
                       processEnv.SMARTFLO_WEBHOOK_SECRET),
                    signature, payload)

verifyInboundWebhookSignature(processEnv, signature, payload) ==
    VerifySignature(Or(processEnv.SMARTFLO_INBOUND_WEBHOOK_SECRET,
                       processEnv.SMARTFLO_WEBHOOK_SECRET),
                    signature, payload)

(***************************************************************************)
(* Collections                                                             *)
(***************************************************************************)

\* User documents, in natural (insertion) order.
AgentUser == [id |-> "u2", role |-> "Others", smartfloAgentNumber |-> "a2"]
AdminUser == [id |-> "u1", role |-> "Admin", smartfloAgentNumber |-> "a1"]

\* Strings mongoose casts to an ObjectId.
ObjectIdStrings == { "u1", "u2", "u3" }

\* User.findOne({ smartfloAgentNumber }): the first match's _id, or null.
FindUserByAgentNumber(agentNumber) ==
    IF \E i \in 1..Len(users) : users[i].smartfloAgentNumber = agentNumber
    THEN users[CHOOSE i \in 1..Len(users) :
                 /\ users[i].smartfloAgentNumber = agentNumber
                 /\ \A j \in 1..(i - 1) : users[j].smartfloAgentNumber # agentNumber].id
    ELSE NULL

\* User.findById(id) for a castable id.
FindUserById(id) ==
    IF \E i \in 1..Len(users) : users[i].id = id THEN id ELSE NULL

\* User.findOne({ role: { $in: ["Admin", "Superadmin"] } })
FindAdmin ==
    IF \E i \in 1..Len(users) : users[i].role \in {"Admin", "Superadmin"}
    THEN users[CHOOSE i \in 1..Len(users) :
                 /\ users[i].role \in {"Admin", "Superadmin"}
                 /\ \A j \in 1..(i - 1) : users[j].role \notin {"Admin", "Superadmin"}].id
    ELSE NULL

\* User.findOne()
FindAnyUser == IF Len(users) > 0 THEN users[1].id ELSE NULL

\* Fields of a webhook body.
PayloadFields ==
    { "agent_number", "call_direction", "call_id", "call_status",
      "call_to_number", "call_type", "called_number", "caller_id",
      "caller_id_number", "caller_number", "custom_identifier",
      "destination_number", "direction", "disposition", "duration",
      "end_time", "event_type", "inbound", "ivr_data", "queue_id",
      "queue_wait_time", "recording_url", "start_time",
      "transfer_data", "virtual_number" }

EmptyBody == [f \in PayloadFields |-> UNDEF]

\* The body's members, for JSON.stringify: present fields in body order.
RECURSIVE MembersFrom(_, _)
MembersFrom(body, i) ==
    IF i > Len(JsonKeys) THEN <<>>
    ELSE (IF JsonKeys[i] \in PayloadFields /\ body[JsonKeys[i]] # UNDEF
          THEN <<Atom(JsonKeys[i], body[JsonKeys[i]])>> ELSE <<>>)
         \o MembersFrom(body, i + 1)

Members(body) == MembersFrom(body, 1)

\* { ...callLog.webhookData, ...webhookData }
SpreadMerge(old, new) ==
    [f \in PayloadFields |-> IF new[f] # UNDEF THEN new[f] ELSE old[f]]

\* The boolean true of a JSON body, as opposed to the string "true".
TRUE_VALUE == "true:boolean"

\* parseInt's result on text that does not start with a number.
NaN == 0 - 1

\* parseInt over the numerals of the model.
ParseInt(text) ==
    CASE text = "42" -> 42
      [] text = "95" -> 95
      [] text = "5" -> 5
      [] text = "7" -> 7
      [] OTHER -> NaN

\* custom_identifier.split('_')
SplitUnderscore(text) ==
    CASE text = "CRM_1_u2_7" -> <<"CRM", "1", "u2", "7">>
      [] text = "CRM_1_7" -> <<"CRM", "1", "7">>
      [] OTHER -> <<text>>

\* event_type?.toLowerCase().includes('inbound')
IncludesInbound(eventType) ==
    Truthy(eventType) /\ ToLowerCase(eventType) \in {"inbound", "inbound.call", "call.inbound"}

InboundWords == {"inbound", "INBOUND", "Inbound"}

\* A placeholder or existing lead (Entry document).
NewLead(phoneNumber, creator) ==
    [ customerName   |-> IF phoneNumber = "Unknown" THEN "Unknown Inbound Caller"
                         ELSE "Incoming Caller",
      mobileNumber   |-> phoneNumber,
      status         |-> "Not Found",
      createdBy      |-> creator,
      lastCallDate   |-> UNDEF,
      lastCallStatus |-> UNDEF,
      totalCallsMade |-> 0,
      callbackScheduled |-> UNDEF ]

\* lead.save() of a loaded lead: the changed paths of EntrySchema are
\* written.  The schemas are strict: a property set on the document under
\* a name that is no path (callbackScheduled, callbackReason,
\* totalInboundCalls) is not saved.
SaveLead(stored, loaded, lead) ==
    LET paths == { "customerName", "mobileNumber", "status", "createdBy",
                   "lastCallDate", "lastCallStatus", "totalCallsMade" }
    IN [f \in DOMAIN stored |->
           IF f \in paths /\ lead[f] # loaded[f] THEN lead[f] ELSE stored[f]]

\* Strings of exactly ten digits.
TenDigitNumbers == { "p1", "p2", "p3" }

\* EntrySchema validation run by save(): createdBy is required, mobileNumber
\* is empty or ten digits.
EntryValid(lead) ==
    /\ lead.createdBy \notin {NULL, UNDEF}
    /\ (~Truthy(lead.mobileNumber) \/ lead.mobileNumber \in TenDigitNumbers)

\* Entry.findOne({ mobileNumber }): the first match's _id, 0 for null.  An
\* undefined filter value matches the documents without the field.
FindLeadByMobile(mobileNumber) ==
    IF \E i \in 1..Len(leads) : leads[i].mobileNumber = mobileNumber
    THEN CHOOSE i \in 1..Len(leads) :
            /\ leads[i].mobileNumber = mobileNumber
            /\ \A j \in 1..(i - 1) : leads[j].mobileNumber # mobileNumber
    ELSE 0

\* A CallLog document before any field is set, with the schema defaults.
BlankCallLog ==
    [ leadId |-> 0, userId |-> NULL, agentNumber |-> UNDEF,
      destinationNumber |-> UNDEF, callerId |-> UNDEF, virtualNumber |-> UNDEF,
      providerCallId |-> UNDEF, customIdentifier |-> UNDEF,
      callStatus |-> "initiated", callDirection |-> "outbound",
      queueId |-> UNDEF, queueWaitTime |-> 0, routingReason |-> "direct",
      startTime |-> "Date.now", endTime |-> UNDEF, duration |-> 0,
      recordingUrl |-> UNDEF, disposition |-> UNDEF,
      transferData |-> UNDEF, ivrData |-> UNDEF,
      source |-> "SMARTFLO", webhookData |-> EmptyBody, updatedAt |-> 0 ]

\* CallLogSchema.pre("save"): every save stamps updatedAt with Date.now().
PreSave(doc, time) == [doc EXCEPT !.updatedAt = time]

\* CallLogSchema validation run by save(): required paths, the enums, and
\* the numeric paths (a NaN does not cast, a negative fails min: 0).
CallLogValid(doc) ==
    /\ doc.leadId # 0
    /\ doc.userId \notin {NULL, UNDEF}
    /\ Truthy(doc.agentNumber)
    /\ Truthy(doc.destinationNumber)
    /\ doc.callStatus \in CanonicalStatuses
    /\ doc.callDirection \in {"outbound", "inbound"}
    /\ doc.duration >= 0
    /\ doc.queueWaitTime >= 0

MutNoUniqueIndex(providerCallId) == FALSE

\* The unique sparse index on providerCallId: an insert whose providerCallId
\* is present and already stored fails with a duplicate key error.
DuplicateKey(providerCallId) ==
    /\ providerCallId # UNDEF
    /\ \E i \in 1..Len(callLogs) : callLogs[i].providerCallId = providerCallId

\* CallLog.findOne({ providerCallId }) / ({ customIdentifier }): _id or 0.
FindCallLogBy(field, value) ==
    IF \E i \in 1..Len(callLogs) : callLogs[i][field] = value
    THEN CHOOSE i \in 1..Len(callLogs) :
            /\ callLogs[i][field] = value
            /\ \A j \in 1..(i - 1) : callLogs[j][field] # value
    ELSE 0

\* save() of a loaded document writes the paths changed since it was loaded.
SaveModified(stored, loaded, doc) ==
    [f \in DOMAIN stored |-> IF doc[f] # loaded[f] THEN doc[f] ELSE stored[f]]

(***************************************************************************)
(* Cache                                                                   *)
(*                                                                         *)
(* A key is the sequence of its parts: the family name, then the parts     *)
(* that the code joins with "_".                                           *)
(***************************************************************************)

\* Whether the regular expression made from a glob pattern matches the key.
\* "family_*" matches a key that holds "family_"; "*_id_*" one that holds "_id_".
KeyMatches(pattern, key) ==
    IF pattern.kind = "family"
    THEN key[1] = pattern.name /\ Len(key) >= 2
    ELSE \E i \in 2..(Len(key) - 1) : key[i] = pattern.name

\* The patterns smartInvalidate builds for a data type and a user id.  The
\* pattern user_role_<id> of "users" matches nothing user_role_* does not.
InvalidatePatterns(dataType, userId) ==
    (CASE dataType = "calls" ->
            { [kind |-> "family", name |-> "call_history"],
              [kind |-> "family", name |-> "call_stats"],
              [kind |-> "family", name |-> "call_details"] }
       [] dataType = "entries" ->
            { [kind |-> "family", name |-> "entries"],
              [kind |-> "family", name |-> "entry_counts"] }
       [] dataType = "users" ->
            { [kind |-> "family", name |-> "user_role"] }
       [] OTHER -> {})
    \cup (IF dataType \in {"calls", "entries"} /\ Truthy(userId)
          THEN { [kind |-> "inner", name |-> userId] } ELSE {})

\* The cache after smartInvalidate(dataType, userId).
smartInvalidate(keys, dataType, userId) ==
    IF dataType = "all" THEN {}
    ELSE
    { key \in keys : \A pat \in InvalidatePatterns(dataType, userId) : ~KeyMatches(pat, key) }

InitialCache ==
    { <<"call_history", "u1", "Admin", "all">>,
      <<"call_history", "u2", "Others", "all">>,
      <<"call_details", "1", "u1">>,
      <<"entries", "u1", "all">>,
      <<"entries", "u2", "all">>,
      <<"user_role", "u1">> }

(***************************************************************************)
(* Webhook handlers                                                        *)
(***************************************************************************)

\* Deliveries handled in one run, each by its own handler.
MaxDeliveries == 2
\* Milliseconds the clock advances in one run.
MaxTime == 1

Handlers == 1..MaxDeliveries

IdleHandler ==
    [ pc |-> "idle", startedAfter |-> {}, gate |-> UNDEF, thrown |-> UNDEF,
      endpoint |-> UNDEF, objectBody |-> TRUE, body |-> EmptyBody,
      disposition |-> UNDEF,
      callId |-> UNDEF, docId |-> 0, doc |-> BlankCallLog, created |-> FALSE,
      leadId |-> 0, lead |-> NewLead(UNDEF, NULL), isNewLead |-> FALSE,
      assignedUser |-> NULL, responses |-> <<>> ]

\* res.status(status).json({ success, message, error })
Response(status, success, message, error) ==
    [status |-> status, success |-> success, message |-> message, error |-> error]

\* The handler sends a response and returns: its documents in memory and
\* its other locals go out of scope.
Finish(hd, response) ==
    [hd EXCEPT !.pc = "done", !.responses = Append(@, response),
               !.doc = IdleHandler.doc, !.lead = IdleHandler.lead,
               !.leadId = IdleHandler.leadId, !.isNewLead = IdleHandler.isNewLead,
               !.assignedUser = IdleHandler.assignedUser]

MutRethrow(hd, message) ==
    Finish(hd, Response(500, FALSE, "Internal Server Error", message))

MutCatchSilently(hd, message) == [hd EXCEPT !.pc = "done"]

\* The catch block of both handlers.
CatchRespond(hd, message) ==
    Finish(hd, Response(200, FALSE, "Webhook received but processing failed", message))

\* A statement inside the handler's try block throws an error with this message.
Throw(hd, message) == CatchRespond([hd EXCEPT !.thrown = message], message)

\* req.ip of the deliveries of a run.
ClientIP == "203.0.113.7"

\* createRateLimiter(200, 60000)
WebhookMaxRequests == 200
WebhookWindowMs == 60000

RateLimitKey == <<"rate", "limit", ClientIP>>

\* getCachedData(key) || { count: 0, resetTime: Date.now() + windowMs }, the
\* reset of an expired window, and current.count++.
RateLimitAfter(keys, stored, time) ==
    LET current == IF RateLimitKey \in keys THEN stored
                   ELSE [count |-> 0, resetTime |-> time + WebhookWindowMs]
        fresh == IF time > current.resetTime
                 THEN [count |-> 0, resetTime |-> time + WebhookWindowMs]
                 ELSE current
    IN [fresh EXCEPT !.count = @ + 1]

\* validateIPWhitelist(allowedIPs): an empty list allows every sender.
IPAllowed(processEnv) ==
    ~Truthy(processEnv.SMARTFLO_ALLOWED_IPS) \/ processEnv.SMARTFLO_ALLOWED_IPS = ClientIP

\* validateSmartfloWebhook: only a body that is no object is refused; missing
\* fields and malformed phone numbers pass.
PayloadAccepted(objectBody) == objectBody

\* The middleware in front of both handlers, in the router's order: the one
\* that stops the request, or "handler" when the request reaches the handler.
Gate(processEnv, limit, objectBody) ==
    IF limit.count > WebhookMaxRequests THEN "rate-limited"
    ELSE IF ~IPAllowed(processEnv) THEN "ip-refused"
    ELSE IF ~PayloadAccepted(objectBody) THEN "bad-payload"
    ELSE "handler"

virtualNum(body) ==
    Or(body["virtual_number"], Or(body["called_number"], body["agent_number"]))

MutAlwaysInbound(body) == TRUE

isInbound(body) ==
    \/ body["direction"] \in InboundWords
    \/ body["call_direction"] \in InboundWords
    \/ body["call_type"] \in InboundWords
    \/ IncludesInbound(body["event_type"])
    \/ body["inbound"] \in {TRUE_VALUE, "true"}
    \/ (Truthy(body["caller_id"]) /\ Truthy(body["called_number"])
            /\ ~Truthy(body["custom_identifier"]))
    \/ (Truthy(body["caller_id"]) /\ Truthy(body["called_number"])
            /\ body["virtual_number"] = body["called_number"])
    \/ (Truthy(body["caller_id"]) /\ ~Truthy(body["custom_identifier"])
            /\ Truthy(virtualNum(body)))
    \/ (Truthy(body["caller_id"]) /\ ~Truthy(body["custom_identifier"])
            /\ body["event_type"] # "call.initiated")

phoneToMatch(body) ==
    IF isInbound(body)
    THEN Or(body["caller_id"], Or(body["caller_id_number"],
            Or(body["destination_number"], body["call_to_number"])))
    ELSE Or(body["destination_number"], body["call_to_number"])

\* `WEBHOOK_${Date.now()}`
SynthesizedCallId(time) == "WEBHOOK_" \o ToString(time)

\* The signature check at the head of both handlers, by the line it logs:
\* "verified", "invalid", or "unverified" (no secret for the endpoint, or no
\* signature header).
SignatureDisposition(processEnv, endpoint, signature, body) ==
    LET secret == IF endpoint = "call-events"
                  THEN processEnv.SMARTFLO_OUTBOUND_WEBHOOK_SECRET
                  ELSE processEnv.SMARTFLO_INBOUND_WEBHOOK_SECRET
        verified == IF endpoint = "call-events"
                    THEN verifyOutboundWebhookSignature(processEnv, signature, Members(body))
                    ELSE verifyInboundWebhookSignature(processEnv, signature, Members(body))
    IN IF Truthy(secret) /\ Len(signature) > 0
       THEN IF verified THEN "verified" ELSE "invalid"
       ELSE "unverified"

MutNeverRejects(disposition) == FALSE

\* Whether the handler returns 401 after the signature check.
RejectedBySignature(disposition) ==
    disposition = "invalid" /\ env.NODE_ENV = "production"

\* The agent resolved before the lead is looked up.  err is set when
\* User.findById is given a string that does not cast to an ObjectId.
EarlyAssignedUser(body) ==
    LET byNumber == IF Truthy(body["agent_number"])
                    THEN FindUserByAgentNumber(body["agent_number"]) ELSE NULL
        parts == SplitUnderscore(body["custom_identifier"])
    IN IF isInbound(body) THEN [err |-> FALSE, user |-> byNumber]
       ELSE IF byNumber = NULL /\ Truthy(body["custom_identifier"]) /\ Len(parts) >= 3
            THEN IF parts[3] \in ObjectIdStrings
                 THEN [err |-> FALSE, user |-> FindUserById(parts[3])]
                 ELSE [err |-> TRUE, user |-> NULL]
            ELSE [err |-> FALSE, user |-> byNumber]

\* The handler once the CallLog lookups are over.
AfterLookup(hd, id) ==
    LET early == EarlyAssignedUser(hd.body)
    IN IF early.err THEN Throw(hd, "Cast to ObjectId failed")
       ELSE [hd EXCEPT !.docId = id,
                       !.doc = IF id = 0 THEN BlankCallLog ELSE callLogs[id],
                       !.assignedUser = early.user,
                       !.pc = IF id = 0 THEN "ce_findLead" ELSE "ce_saveUpdate"]

MutTimingOverwrites(doc, body) ==
    [doc EXCEPT
        !.startTime = body["start_time"],
        !.endTime = body["end_time"],
        !.duration = IF body["duration"] # UNDEF THEN ParseInt(body["duration"]) ELSE @,
        !.recordingUrl = body["recording_url"],
        !.disposition = body["disposition"],
        !.transferData = IF Truthy(body["transfer_data"]) THEN body["transfer_data"] ELSE @,
        !.ivrData = IF Truthy(body["ivr_data"]) THEN body["ivr_data"] ELSE @]

\* The fields both the create and the update path set from the body.
WithTimingFields(doc, body) ==
    [doc EXCEPT
        !.startTime = IF Truthy(body["start_time"]) THEN body["start_time"] ELSE @,
        !.endTime = IF Truthy(body["end_time"]) THEN body["end_time"] ELSE @,
        !.duration = IF body["duration"] # UNDEF THEN ParseInt(body["duration"]) ELSE @,
        !.recordingUrl = IF Truthy(body["recording_url"]) THEN body["recording_url"] ELSE @,
        !.disposition = IF Truthy(body["disposition"]) THEN body["disposition"] ELSE @,
        !.transferData = IF Truthy(body["transfer_data"]) THEN body["transfer_data"] ELSE @,
        !.ivrData = IF Truthy(body["ivr_data"]) THEN body["ivr_data"] ELSE @]

queueWaitTime(body) ==
    IF Truthy(body["queue_wait_time"]) THEN ParseInt(body["queue_wait_time"]) ELSE 0

\* new CallLog({...}) of handleCallEvents, then the timing fields.
NewCallLog(hd, user) ==
    LET body == hd.body
        inb == isInbound(body)
    IN WithTimingFields(
        [BlankCallLog EXCEPT
            !.leadId = hd.leadId,
            !.userId = user,
            !.agentNumber = Or(body["agent_number"], virtualNum(body)),
            !.destinationNumber = IF inb THEN Or(body["caller_id"], body["destination_number"])
                                  ELSE body["destination_number"],
            !.callerId = body["caller_id"],
            !.virtualNumber = virtualNum(body),
            !.providerCallId = hd.callId,
            !.customIdentifier = body["custom_identifier"],
            !.callStatus = mapSmartfloStatus(Or(body["call_status"], body["event_type"])),
            !.callDirection = IF inb THEN "inbound" ELSE "outbound",
            !.queueId = body["queue_id"],
            !.queueWaitTime = queueWaitTime(body),
            !.routingReason = IF inb /\ Truthy(body["queue_id"]) THEN "queue" ELSE "direct",
            !.source = "WEBHOOK",
            !.webhookData = body], body)

MutStatusKeptOnUpdate(doc, body) ==
    WithTimingFields(
        [doc EXCEPT
            !.webhookData = SpreadMerge(@, body),
            !.callDirection = IF isInbound(body) /\ @ # "inbound" THEN "inbound" ELSE @],
        body)

MutNoDirectionFix(doc, body) ==
    WithTimingFields(
        [doc EXCEPT
            !.callStatus = mapSmartfloStatus(Or(body["call_status"], body["event_type"])),
            !.webhookData = SpreadMerge(@, body)],
        body)

MutDirectionFollowsEvent(doc, body) ==
    WithTimingFields(
        [doc EXCEPT
            !.callStatus = mapSmartfloStatus(Or(body["call_status"], body["event_type"])),
            !.webhookData = SpreadMerge(@, body),
            !.callDirection = IF isInbound(body) THEN "inbound" ELSE "outbound"],
        body)

MutLatestWins(doc, body) ==
    WithTimingFields(
        [doc EXCEPT
            !.callStatus = mapSmartfloStatus(Or(body["call_status"], body["event_type"])),
            !.webhookData = SpreadMerge(@, body),
            !.virtualNumber = IF Truthy(virtualNum(body)) THEN virtualNum(body) ELSE @,
            !.queueId = IF Truthy(body["queue_id"]) THEN body["queue_id"] ELSE @,
            !.callDirection = IF isInbound(body) /\ @ # "inbound" THEN "inbound" ELSE @],
        body)

\* The update path of handleCallEvents, then the timing fields.
MergedCallLog(doc, body) ==
    LET fillQueue == Truthy(body["queue_id"]) /\ ~Truthy(doc.queueId)
    IN WithTimingFields(
        [doc EXCEPT
            !.callStatus = mapSmartfloStatus(Or(body["call_status"], body["event_type"])),
            !.webhookData = SpreadMerge(@, body),
            !.virtualNumber = IF ~Truthy(@) /\ Truthy(virtualNum(body))
                              THEN virtualNum(body) ELSE @,
            !.queueId = IF fillQueue THEN body["queue_id"] ELSE @,
            !.queueWaitTime = IF fillQueue THEN queueWaitTime(body) ELSE @,
            !.callDirection = IF isInbound(body) /\ @ # "inbound" THEN "inbound" ELSE @],
        body)

MutAlwaysSchedule(doc) == TRUE

\* Whether the handler schedules the deferred recording fetch after the save.
SchedulesRecordingFetch(doc) ==
    /\ doc.callStatus = "completed"
    /\ ~Truthy(doc.recordingUrl)
    /\ Truthy(doc.providerCallId)

\* The bodies a run delivers to POST /call-events.
EventA ==
    [EmptyBody EXCEPT !["call_id"] = "c1", !["call_status"] = "ringing",
                      !["destination_number"] = "p1", !["agent_number"] = "a2"]
EventB ==
    [EmptyBody EXCEPT !["call_id"] = "c1", !["call_status"] = "completed",
                      !["duration"] = "42",
                      !["destination_number"] = "p1", !["agent_number"] = "a2"]
EventInbound ==
    [EmptyBody EXCEPT !["call_id"] = "c1", !["direction"] = "inbound",
                      !["caller_id"] = "p2", !["called_number"] = "v1",
                      !["call_status"] = "answered"]
EventNoCallId ==
    [EmptyBody EXCEPT !["caller_id"] = "p1", !["called_number"] = "v1",
                      !["call_status"] = "ringing"]
EventNoLead ==
    [EmptyBody EXCEPT !["call_id"] = "c2", !["call_status"] = "ringing",
                      !["destination_number"] = "p3", !["agent_number"] = "a2"]

EventCustom ==
    [EmptyBody EXCEPT !["call_id"] = "c2", !["custom_identifier"] = "CRM_1_u2_7",
                      !["call_status"] = "completed", !["duration"] = "95",
                      !["destination_number"] = "p1"]

CallEventBodies ==
    { EventA, EventB, EventInbound, EventNoCallId, EventNoLead, EventCustom }

\* The bodies a run delivers to POST /inbound.
InboundKnown ==
    [EmptyBody EXCEPT !["call_id"] = "c1", !["caller_number"] = "p1",
                      !["called_number"] = "v1", !["call_status"] = "ringing"]
InboundUnknown ==
    [EmptyBody EXCEPT !["call_id"] = "c2", !["caller_number"] = "p2",
                      !["called_number"] = "v1"]
InboundNoCallId ==
    [EmptyBody EXCEPT !["caller_number"] = "p1", !["called_number"] = "v1"]

InboundBodies == { InboundKnown, InboundUnknown, InboundNoCallId }

\* The secret the provider signs an endpoint's deliveries with.
SigningSecret(endpoint) ==
    IF endpoint = "call-events" THEN "outbound-secret" ELSE "inbound-secret"

\* The signature headers a delivery may carry: none, the provider's, a forged one.
SignatureHeaders(endpoint, body) ==
    { <<>>,
      <<SHA256_PREFIX>> \o Hmac(SigningSecret(endpoint), StringifyCompact(Members(body))),
      Hmac("wrong-secret", StringifyCompact(Members(body))) }

\* process.env of a production deployment with a secret for each endpoint.
StrictEnv ==
    [ NODE_ENV |-> "production",
      SMARTFLO_OUTBOUND_WEBHOOK_SECRET |-> "outbound-secret",
      SMARTFLO_INBOUND_WEBHOOK_SECRET |-> "inbound-secret",
      SMARTFLO_WEBHOOK_SECRET |-> UNDEF,
      SMARTFLO_ALLOWED_IPS |-> UNDEF ]

\* The same secrets outside production, with the sender on the whitelist.
DevelopmentEnv ==
    [StrictEnv EXCEPT !.NODE_ENV = "development", !.SMARTFLO_ALLOWED_IPS = ClientIP]

\* Production with the shared secret only.
SharedSecretEnv ==
    [StrictEnv EXCEPT !.SMARTFLO_OUTBOUND_WEBHOOK_SECRET = UNDEF,
                      !.SMARTFLO_INBOUND_WEBHOOK_SECRET = UNDEF,
                      !.SMARTFLO_WEBHOOK_SECRET = "shared-secret"]

\* Production with a whitelist that does not hold the sender.
WhitelistEnv ==
    [StrictEnv EXCEPT !.SMARTFLO_ALLOWED_IPS = "198.51.100.1"]

Environments == { StrictEnv, DevelopmentEnv, SharedSecretEnv, WhitelistEnv }

\* process.env with no webhook secret at all.
NoSecretEnv ==
    [StrictEnv EXCEPT !.SMARTFLO_OUTBOUND_WEBHOOK_SECRET = UNDEF,
                      !.SMARTFLO_INBOUND_WEBHOOK_SECRET = UNDEF]

\* The bodies of the end-to-end scenarios, by name.
\*   no-phone:       an inbound call whose caller resolves to no phone number
\*   known-inbound:  an inbound call from the number of an existing lead
\*   token:          the provider's report of a click-to-call, with the
\*                   correlation token only
\*   token-agent:    the same report with the provider's call id and the
\*                   agent's number
\*   follow-up:      a later event of that call, with the call id and no
\*                   correlation token
\*   blank:          an update that carries the optional fields empty
\*   blank-duration: an update that carries an empty duration
\*   sparse:         an update that carries the call id and a status only
\*   no-number:      a POST /inbound body without a caller number
\*   other-queue:    an update that carries another virtual number and queue
\*   said-outbound:  a first event that says outbound and carries a caller id
\*   no-agent:       a first outbound event without agent number and token
\*   no-answer:      a first event of a call that was not answered
\*   no-call-id:     a first outbound event without a call id
\*   no-status:      an update that carries neither call_status nor event_type
\*   recording:      a later event of a call, with the URL of its recording
ScenarioEvent(name) ==
    CASE name = "no-phone" ->
            [EmptyBody EXCEPT !["call_id"] = "c2", !["direction"] = "inbound",
                              !["called_number"] = "v1", !["call_status"] = "ringing"]
      [] name = "known-inbound" ->
            [EmptyBody EXCEPT !["call_id"] = "c2", !["direction"] = "inbound",
                              !["caller_id"] = "p1", !["called_number"] = "v1",
                              !["call_status"] = "ringing"]
      [] name = "token" ->
            [EmptyBody EXCEPT !["custom_identifier"] = "CRM_1_7",
                              !["call_status"] = "completed", !["duration"] = "95",
                              !["destination_number"] = "p1"]
      [] name = "token-agent" ->
            [EmptyBody EXCEPT !["call_id"] = "c2", !["custom_identifier"] = "CRM_1_7",
                              !["agent_number"] = "a2",
                              !["call_status"] = "completed", !["duration"] = "95",
                              !["destination_number"] = "p1"]
      [] name = "follow-up" ->
            [EmptyBody EXCEPT !["call_id"] = "c2", !["agent_number"] = "a2",
                              !["call_status"] = "completed",
                              !["destination_number"] = "p1"]
      [] name = "blank" ->
            [EmptyBody EXCEPT !["call_id"] = "c3", !["call_status"] = "answered",
                              !["start_time"] = "", !["end_time"] = "",
                              !["recording_url"] = "", !["disposition"] = "",
                              !["virtual_number"] = "", !["queue_id"] = ""]
      [] name = "blank-duration" ->
            [EmptyBody EXCEPT !["call_id"] = "c3", !["call_status"] = "completed",
                              !["duration"] = ""]
      [] name = "sparse" ->
            [EmptyBody EXCEPT !["call_id"] = "c3", !["call_status"] = "completed"]
      [] name = "no-number" ->
            [EmptyBody EXCEPT !["call_id"] = "c2", !["called_number"] = "v1"]
      [] name = "other-queue" ->
            [EmptyBody EXCEPT !["call_id"] = "c3", !["call_status"] = "answered",
                              !["virtual_number"] = "v2", !["queue_id"] = "q2"]
      [] name = "said-outbound" ->
            [EmptyBody EXCEPT !["call_id"] = "c2", !["direction"] = "outbound",
                              !["caller_id"] = "p1", !["destination_number"] = "p1",
                              !["agent_number"] = "a2", !["call_status"] = "ringing"]
      [] name = "no-agent" ->
            [EmptyBody EXCEPT !["call_id"] = "c2", !["destination_number"] = "p1",
                              !["virtual_number"] = "v1", !["call_status"] = "ringing"]
      [] name = "no-answer" ->
            [EmptyBody EXCEPT !["call_id"] = "c2", !["call_status"] = "no_answer",
                              !["destination_number"] = "p1", !["agent_number"] = "a2"]
      [] name = "no-call-id" ->
            [EmptyBody EXCEPT !["call_status"] = "ringing",
                              !["destination_number"] = "p1", !["agent_number"] = "a2"]
      [] name = "no-status" ->
            [EmptyBody EXCEPT !["call_id"] = "c3", !["end_time"] = "t2"]
      [] name = "recording" ->
            [EmptyBody EXCEPT !["call_id"] = "c2", !["call_status"] = "completed",
                              !["recording_url"] = "url1"]

ScenarioCallEvents ==
    { EventInbound, EventB, EventNoCallId } \cup
    { ScenarioEvent(name) :
        name \in { "no-phone", "known-inbound", "token", "token-agent",
                   "follow-up", "blank", "blank-duration", "sparse",
                   "other-queue", "said-outbound", "no-agent", "no-answer",
                   "no-call-id", "no-status", "recording" } }

ScenarioInbound == { InboundKnown, InboundUnknown, ScenarioEvent("no-number") }

\* What a run may deliver under an environment: endpoint, body and the
\* outcome of the signature check for each header the delivery may carry.
DeliveriesTo(processEnv, endpoint, bodies) ==
    UNION { { [endpoint |-> endpoint, objectBody |-> TRUE, body |-> body,
               disposition |-> SignatureDisposition(processEnv, endpoint, signature, body)] :
              signature \in SignatureHeaders(endpoint, body) } : body \in bodies }

\* A request whose body the parser left as something other than an object.
NoObjectDeliveries ==
    { [endpoint |-> endpoint, objectBody |-> FALSE, body |-> EmptyBody,
       disposition |-> "unverified"] : endpoint \in {"call-events", "inbound"} }

\* The pairs of an environment and a delivery under it.
DeliveriesByEnv ==
    UNION { { <<processEnv, d>> :
                d \in DeliveriesTo(processEnv, "call-events", CallEventBodies)
                      \cup DeliveriesTo(processEnv, "inbound", InboundBodies)
                      \cup NoObjectDeliveries } :
            processEnv \in Environments }
    \cup { <<NoSecretEnv, d>> :
              d \in DeliveriesTo(NoSecretEnv, "call-events", ScenarioCallEvents)
                    \cup DeliveriesTo(NoSecretEnv, "inbound", ScenarioInbound) }

InitialLeads ==
    << [NewLead("p1", "u2") EXCEPT !.customerName = "Customer One"] >>

\* The sender's counter when a run starts: no entry yet, or a window in
\* which the sender has one request left.
NoRateLimit == [count |-> 0, resetTime |-> 0]
LastInWindow == [count |-> WebhookMaxRequests - 1, resetTime |-> WebhookWindowMs]

\* The deployments a run starts from: process.env, the users collection and
\* the sender's counter.
Deployments ==
    { [env |-> StrictEnv, users |-> <<AgentUser, AdminUser>>, limit |-> NoRateLimit],
      [env |-> DevelopmentEnv, users |-> <<AgentUser, AdminUser>>, limit |-> NoRateLimit],
      [env |-> SharedSecretEnv, users |-> <<AgentUser>>, limit |-> NoRateLimit],
      [env |-> WhitelistEnv, users |-> <<AgentUser, AdminUser>>, limit |-> NoRateLimit],
      [env |-> StrictEnv, users |-> <<AgentUser, AdminUser>>, limit |-> LastInWindow] }

NoProbe == [phase |-> "none"]

Init ==
    /\ \E deployment \in Deployments :
          /\ env = deployment.env
          /\ users = deployment.users
          /\ rateLimit = deployment.limit
          /\ cache = IF deployment.limit = NoRateLimit THEN InitialCache
                     ELSE InitialCache \cup {RateLimitKey}
    /\ leads = InitialLeads
    /\ callLogs = <<>>
    /\ timers = {}
    /\ now = 0
    /\ hs = [h \in Handlers |-> IdleHandler]
    /\ probe = NoProbe

\* A request arrives: the rate limiter, the IP whitelist, the payload
\* validator and the synchronous head of handleCallEvents or
\* handleInboundCall, up to the first database call.
Deliver(h) ==
    /\ hs[h].pc = "idle"
    /\ \A g \in Handlers : g < h => hs[g].pc # "idle"
    /\ \E delivery \in DeliveriesByEnv :
          /\ delivery[1] = env
          /\ LET d == delivery[2]
                 limit == RateLimitAfter(cache, rateLimit, now)
                 gate == Gate(env, limit, d.objectBody)
                 hd == [hs[h] EXCEPT
                           !.startedAfter = { g \in Handlers : hs[g].pc = "done" },
                           !.gate = gate,
                           !.endpoint = d.endpoint, !.objectBody = d.objectBody,
                           !.body = d.body,
                           !.disposition = IF gate = "handler" THEN d.disposition ELSE UNDEF]
             IN /\ rateLimit' = limit
                /\ cache' = cache \cup {RateLimitKey}
                /\ hs' = [hs EXCEPT ![h] =
                   IF gate = "rate-limited"
                   THEN Finish(hd, Response(429, FALSE, "Too many requests", UNDEF))
                   ELSE IF gate = "ip-refused"
                   THEN Finish(hd, Response(403, FALSE, "Unauthorized IP address", UNDEF))
                   ELSE IF gate = "bad-payload"
                   THEN Finish(hd, Response(400, FALSE, "Invalid webhook payload format", UNDEF))
                   ELSE IF RejectedBySignature(d.disposition)
                   THEN Finish(hd, Response(401, FALSE,
                                   IF d.endpoint = "call-events"
                                   THEN "Invalid outbound webhook signature"
                                   ELSE "Invalid inbound webhook signature", UNDEF))
                   ELSE IF d.endpoint = "call-events"
                   THEN [hd EXCEPT !.pc = "ce_findByCallId",
                                   !.callId = Or(d.body["call_id"], SynthesizedCallId(now))]
                   ELSE [hd EXCEPT !.pc = "in_findLead", !.callId = d.body["call_id"]]]
    /\ UNCHANGED <<env, users, leads, callLogs, timers, now, probe>>

\* CallLog.findOne({ providerCallId: callId })
CE_FindByCallId(h) ==
    /\ hs[h].pc = "ce_findByCallId"
    /\ LET hd == hs[h]
           id == FindCallLogBy("providerCallId", hd.callId)
       IN hs' = [hs EXCEPT ![h] =
                   IF id = 0 /\ Truthy(hd.body["custom_identifier"])
                   THEN [hd EXCEPT !.pc = "ce_findByCustom"]
                   ELSE AfterLookup(hd, id)]
    /\ UNCHANGED <<env, users, leads, callLogs, cache, timers, rateLimit, now, probe>>

\* CallLog.findOne({ customIdentifier: custom_identifier })
CE_FindByCustom(h) ==
    /\ hs[h].pc = "ce_findByCustom"
    /\ hs' = [hs EXCEPT ![h] =
                AfterLookup(hs[h], FindCallLogBy("customIdentifier",
                                                 hs[h].body["custom_identifier"]))]
    /\ UNCHANGED <<env, users, leads, callLogs, cache, timers, rateLimit, now, probe>>

\* Entry.findOne({ mobileNumber: phoneToMatch }) and the branch on its result.
CE_FindLead(h) ==
    /\ hs[h].pc = "ce_findLead"
    /\ LET hd == hs[h]
           id == FindLeadByMobile(phoneToMatch(hd.body))
       IN hs' = [hs EXCEPT ![h] =
                   IF id # 0
                   THEN [hd EXCEPT !.leadId = id, !.lead = leads[id], !.pc = "ce_saveNew"]
                   ELSE IF isInbound(hd.body)
                   THEN [hd EXCEPT !.pc = "ce_createLead"]
                   ELSE Finish(hd, Response(200, TRUE,
                                   "Webhook received but no matching lead", UNDEF))]
    /\ UNCHANGED <<env, users, leads, callLogs, cache, timers, rateLimit, now, probe>>

\* createLeadForInboundCall(phoneToMatch || "Unknown", assignedUser)
CE_CreateLead(h) ==
    /\ hs[h].pc = "ce_createLead"
    /\ LET hd == hs[h]
           defaultUser == IF hd.assignedUser # NULL THEN hd.assignedUser
                          ELSE IF FindAdmin # NULL THEN FindAdmin
                          ELSE FindAnyUser
           lead == NewLead(Or(phoneToMatch(hd.body), "Unknown"), defaultUser)
       IN IF defaultUser = NULL
          THEN /\ hs' = [hs EXCEPT ![h] =
                           Throw(hd, "No users available to assign as lead creator")]
               /\ UNCHANGED leads
          ELSE IF ~EntryValid(lead)
          THEN /\ hs' = [hs EXCEPT ![h] = Throw(hd, "Entry validation failed")]
               /\ UNCHANGED leads
          ELSE /\ leads' = Append(leads, lead)
               /\ hs' = [hs EXCEPT ![h] = [hd EXCEPT !.leadId = Len(leads) + 1,
                                                     !.lead = lead,
                                                     !.pc = "ce_saveNew"]]
    /\ UNCHANGED <<env, users, callLogs, cache, timers, rateLimit, now, probe>>

\* The create path from the agent fallback to callLog.save(), then the code
\* that runs up to Entry.findById: the recording fetch timer and the cache
\* invalidation.
CE_SaveNew(h) ==
    /\ hs[h].pc = "ce_saveNew"
    /\ LET hd == hs[h]
           byCreator == IF isInbound(hd.body) /\ hd.assignedUser = NULL
                           /\ Truthy(hd.lead.createdBy)
                        THEN FindUserById(hd.lead.createdBy) ELSE hd.assignedUser
           user == IF byCreator # NULL THEN byCreator ELSE FindAdmin
           doc == PreSave(NewCallLog(hd, user), now)
           ownerSet == hd.lead.createdBy = NULL /\ user # NULL
           leadsNow == IF ownerSet
                       THEN [leads EXCEPT ![hd.leadId].createdBy = user] ELSE leads
       IN /\ leads' = leadsNow
          /\ IF ~CallLogValid(doc)
             THEN /\ hs' = [hs EXCEPT ![h] = Throw(hd, "CallLog validation failed")]
                  /\ UNCHANGED <<callLogs, cache, timers>>
             ELSE IF DuplicateKey(doc.providerCallId)
             THEN /\ hs' = [hs EXCEPT ![h] = Throw(hd, "E11000 duplicate key error")]
                  /\ UNCHANGED <<callLogs, cache, timers>>
             ELSE /\ callLogs' = Append(callLogs, doc)
                  /\ timers' = IF SchedulesRecordingFetch(doc)
                               THEN timers \cup {Len(callLogs) + 1} ELSE timers
                  /\ cache' = smartInvalidate(cache, "calls", doc.userId)
                  /\ hs' = [hs EXCEPT ![h] = [hd EXCEPT !.docId = Len(callLogs) + 1,
                                                        !.doc = doc,
                                                        !.created = TRUE,
                                                        !.assignedUser = user,
                                                        !.pc = "ce_loadLead"]]
    /\ UNCHANGED <<env, users, rateLimit, now, probe>>

\* The update path: merge, callLog.save(), timer and cache invalidation.
CE_SaveUpdate(h) ==
    /\ hs[h].pc = "ce_saveUpdate"
    /\ LET hd == hs[h]
           doc == PreSave(MergedCallLog(hd.doc, hd.body), now)
       IN IF ~CallLogValid(doc)
          THEN /\ hs' = [hs EXCEPT ![h] = Throw(hd, "CallLog validation failed")]
               /\ UNCHANGED <<callLogs, cache, timers>>
          ELSE /\ callLogs' = [callLogs EXCEPT ![hd.docId] = SaveModified(@, hd.doc, doc)]
               /\ timers' = IF SchedulesRecordingFetch(doc)
                            THEN timers \cup {hd.docId} ELSE timers
               /\ cache' = smartInvalidate(cache, "calls", doc.userId)
               /\ hs' = [hs EXCEPT ![h] = [hd EXCEPT !.doc = doc, !.pc = "ce_loadLead"]]
    /\ UNCHANGED <<env, users, leads, rateLimit, now, probe>>

\* Entry.findById(callLog.leadId)
CE_LoadLead(h) ==
    /\ hs[h].pc = "ce_loadLead"
    /\ hs' = [hs EXCEPT ![h] = [@ EXCEPT !.leadId = hs[h].doc.leadId,
                                         !.lead = leads[hs[h].doc.leadId],
                                         !.pc = "ce_leadSave"]]
    /\ UNCHANGED <<env, users, leads, callLogs, cache, timers, rateLimit, now, probe>>

\* The lead's status after a call: only a "Not Found" lead is advanced.
LeadStatusAfter(status, doc) ==
    IF doc.callStatus = "completed" /\ status = "Not Found"
    THEN IF doc.duration > 60 THEN "Interested"
         ELSE IF doc.duration > 10 THEN "Maybe" ELSE status
    ELSE status

\* The lead update of handleCallEvents, lead.save() and the response.
CE_LeadSave(h) ==
    /\ hs[h].pc = "ce_leadSave"
    /\ LET hd == hs[h]
           lead == [hd.lead EXCEPT !.lastCallDate = "Date.now",
                                   !.lastCallStatus = hd.doc.callStatus,
                                   !.status = LeadStatusAfter(@, hd.doc),
                                   !.callbackScheduled =
                                       IF hd.doc.callStatus \in {"no_answer", "failed"}
                                          /\ ~Truthy(@)
                                       THEN "Date.now + 24h" ELSE @,
                                   !.totalCallsMade = @ + 1]
       IN IF ~EntryValid(lead)
          THEN /\ hs' = [hs EXCEPT ![h] = Throw(hd, "Entry validation failed")]
               /\ UNCHANGED leads
          ELSE /\ leads' = [leads EXCEPT ![hd.leadId] = SaveLead(@, hd.lead, lead)]
               /\ hs' = [hs EXCEPT ![h] =
                           Finish([hd EXCEPT !.lead = lead],
                                  Response(200, TRUE, "Webhook processed successfully", UNDEF))]
    /\ UNCHANGED <<env, users, callLogs, cache, timers, rateLimit, now, probe>>

\* Entry.findOne({ mobileNumber: callerNum }) of handleInboundCall.
IN_FindLead(h) ==
    /\ hs[h].pc = "in_findLead"
    /\ LET hd == hs[h]
           id == FindLeadByMobile(hd.body["caller_number"])
       IN hs' = [hs EXCEPT ![h] =
                   IF id # 0
                   THEN [hd EXCEPT !.leadId = id, !.lead = leads[id], !.pc = "in_save"]
                   ELSE [hd EXCEPT !.pc = "in_createLead"]]
    /\ UNCHANGED <<env, users, leads, callLogs, cache, timers, rateLimit, now, probe>>

\* new Entry({ ..., createdBy: null }) and lead.save() for an unknown caller.
IN_CreateLead(h) ==
    /\ hs[h].pc = "in_createLead"
    /\ LET hd == hs[h]
           lead == NewLead(hd.body["caller_number"], NULL)
       IN IF ~EntryValid(lead)
          THEN /\ hs' = [hs EXCEPT ![h] = Throw(hd, "Entry validation failed")]
               /\ UNCHANGED leads
          ELSE /\ leads' = Append(leads, lead)
               /\ hs' = [hs EXCEPT ![h] = [hd EXCEPT !.leadId = Len(leads) + 1,
                                                     !.lead = lead,
                                                     !.isNewLead = TRUE,
                                                     !.pc = "in_save"]]
    /\ UNCHANGED <<env, users, callLogs, cache, timers, rateLimit, now, probe>>

\* new CallLog({...}) of handleInboundCall.
NewInboundCallLog(hd, user) ==
    LET body == hd.body
        vnum == Or(body["virtual_number"], body["called_number"])
    IN [BlankCallLog EXCEPT
            !.leadId = hd.leadId,
            !.userId = user,
            !.agentNumber = Or(body["agent_number"], vnum),
            !.destinationNumber = body["caller_number"],
            !.callerId = body["caller_number"],
            !.virtualNumber = vnum,
            !.providerCallId = body["call_id"],
            !.callStatus = mapSmartfloStatus(body["call_status"]),
            !.callDirection = "inbound",
            !.queueId = body["queue_id"],
            !.queueWaitTime = queueWaitTime(body),
            !.routingReason = IF Truthy(body["queue_id"]) THEN "queue" ELSE "direct",
            !.startTime = IF Truthy(body["start_time"]) THEN body["start_time"] ELSE "Date.now",
            !.source = "WEBHOOK",
            !.webhookData = body]

\* Agent resolution, the new lead's creator, callLog.save() and the first
\* pair of cache invalidations of handleInboundCall.
IN_Save(h) ==
    /\ hs[h].pc = "in_save"
    /\ LET hd == hs[h]
           byNumber == IF Truthy(hd.body["agent_number"])
                       THEN FindUserByAgentNumber(hd.body["agent_number"]) ELSE NULL
           user == IF byNumber # NULL THEN byNumber
                   ELSE IF Truthy(hd.lead.createdBy) THEN FindUserById(hd.lead.createdBy)
                   ELSE FindAdmin
           ownerSet == hd.isNewLead /\ user # NULL
           lead == IF ownerSet THEN [hd.lead EXCEPT !.createdBy = user] ELSE hd.lead
           doc == PreSave(NewInboundCallLog(hd, user), now)
       IN /\ leads' = IF ownerSet
                      THEN [leads EXCEPT ![hd.leadId].createdBy = user] ELSE leads
          /\ IF ~CallLogValid(doc)
             THEN /\ hs' = [hs EXCEPT ![h] = Throw(hd, "CallLog validation failed")]
                  /\ UNCHANGED <<callLogs, cache>>
             ELSE IF DuplicateKey(doc.providerCallId)
             THEN /\ hs' = [hs EXCEPT ![h] = Throw(hd, "E11000 duplicate key error")]
                  /\ UNCHANGED <<callLogs, cache>>
             ELSE /\ callLogs' = Append(callLogs, doc)
                  /\ cache' = smartInvalidate(smartInvalidate(cache, "calls", doc.userId),
                                              "entries", doc.userId)
                  /\ hs' = [hs EXCEPT ![h] = [hd EXCEPT !.docId = Len(callLogs) + 1,
                                                        !.doc = doc,
                                                        !.created = TRUE,
                                                        !.lead = lead,
                                                        !.assignedUser = user,
                                                        !.pc = "in_leadSave"]]
    /\ UNCHANGED <<env, users, timers, rateLimit, now, probe>>

\* The lead update of handleInboundCall, lead.save(), the final invalidations
\* and the response.  totalInboundCalls is no path of EntrySchema: it is set
\* on the document in memory and not written.
IN_LeadSave(h) ==
    /\ hs[h].pc = "in_leadSave"
    /\ LET hd == hs[h]
           lead == [hd.lead EXCEPT !.lastCallDate = "Date.now",
                                   !.lastCallStatus = "inbound_call"]
       IN IF ~EntryValid(lead)
          THEN /\ hs' = [hs EXCEPT ![h] = Throw(hd, "Entry validation failed")]
               /\ UNCHANGED <<leads, cache>>
          ELSE /\ leads' = [leads EXCEPT ![hd.leadId] = SaveLead(@, hd.lead, lead)]
               /\ cache' = smartInvalidate(smartInvalidate(cache, "calls", hd.doc.userId),
                                           "entries", hd.doc.userId)
               /\ hs' = [hs EXCEPT ![h] =
                           Finish([hd EXCEPT !.lead = lead],
                                  Response(200, TRUE, "Inbound call logged successfully", UNDEF))]
    /\ UNCHANGED <<env, users, callLogs, timers, rateLimit, now, probe>>

\* Positions at which the handler awaits a database operation.
AwaitingDatabase ==
    { "ce_findByCallId", "ce_findByCustom", "ce_findLead", "ce_createLead",
      "ce_saveNew", "ce_saveUpdate", "ce_loadLead", "ce_leadSave",
      "in_findLead", "in_createLead", "in_save", "in_leadSave" }

\* A database operation rejects (connection lost, timeout): the await throws
\* and the handler's catch block answers.
DbFault(h) ==
    /\ hs[h].pc \in AwaitingDatabase
    /\ hs' = [hs EXCEPT ![h] = Throw(hs[h], "database operation failed")]
    /\ UNCHANGED <<env, users, leads, callLogs, cache, timers, rateLimit, now, probe>>

\* The clock advances by a millisecond.  Date.now() is read when a delivery
\* arrives, so the clock is followed while a delivery is still to come.
Tick ==
    /\ now < MaxTime
    /\ \E h \in Handlers : hs[h].pc = "idle"
    /\ now' = now + 1
    /\ UNCHANGED <<env, users, leads, callLogs, cache, timers, rateLimit, hs, probe>>

Next ==
    \/ \E h \in Handlers :
          \/ Deliver(h)
          \/ CE_FindByCallId(h) \/ CE_FindByCustom(h) \/ CE_FindLead(h)
          \/ CE_CreateLead(h) \/ CE_SaveNew(h) \/ CE_SaveUpdate(h)
          \/ CE_LoadLead(h) \/ CE_LeadSave(h)
          \/ IN_FindLead(h) \/ IN_CreateLead(h) \/ IN_Save(h) \/ IN_LeadSave(h)
          \/ DbFault(h)
    \/ Tick

Spec == Init /\ [][Next]_vars

\* The record a click-to-call leaves before the provider has reported a
\* call id: the correlation token, the lead and the originating agent.
ClickToCallRecord ==
    [BlankCallLog EXCEPT !.leadId = 1, !.userId = "u2", !.agentNumber = "a2",
                         !.destinationNumber = "p1",
                         !.customIdentifier = "CRM_1_7"]

\* A record of an earlier call whose events carried every optional field.
RichRecord ==
    [BlankCallLog EXCEPT !.leadId = 1, !.userId = "u2", !.agentNumber = "a2",
                         !.destinationNumber = "p1", !.providerCallId = "c3",
                         !.callStatus = "ringing", !.virtualNumber = "v1",
                         !.queueId = "q1", !.queueWaitTime = 5,
                         !.routingReason = "queue",
                         !.startTime = "t1", !.endTime = "t2", !.duration = 42,
                         !.recordingUrl = "url1", !.disposition = "d1",
                         !.source = "WEBHOOK"]

\* The deployments of the end-to-end scenarios: a seeded one with two calls
\* on record, and one whose only user is neither the lead's creator nor an
\* administrator.
ScenarioDeployments ==
    { [users |-> <<AgentUser, AdminUser>>, callLogs |-> <<ClickToCallRecord, RichRecord>>],
      [users |-> << [id |-> "u3", role |-> "Others", smartfloAgentNumber |-> "a3"] >>,
       callLogs |-> <<>>] }

InitScenario ==
    /\ env = NoSecretEnv
    /\ \E deployment \in ScenarioDeployments :
          /\ users = deployment.users
          /\ callLogs = deployment.callLogs
    /\ leads = InitialLeads
    /\ cache = InitialCache
    /\ timers = {}
    /\ rateLimit = NoRateLimit
    /\ now = 0
    /\ hs = [h \in Handlers |-> IdleHandler]
    /\ probe = NoProbe

SpecScenario == InitScenario /\ [][Next]_vars

\* The callback of the recording fetch timer, in its two database steps.
\* The timer fires: getRecordingUrl, then CallLog.findById and the test of
\* the record read; when the provider returned a URL and the record read
\* has none, probe holds the document about to be saved.  Then
\* updatedCallLog.save() writes the URL.  A provider error, an empty answer
\* or a database error is caught and logged.  probe holds the line logged.
\* The timers fire 30 s after the deliveries, when the reader's entry is
\* gone; one callback runs at a time.
FetchRecording ==
    \/ \E id \in timers, provided \in {"url2", UNDEF, "error"} :
          /\ probe.phase \notin {"reading", "cached", "loaded"}
          /\ timers' = timers \ {id}
          /\ probe' = IF provided \notin {UNDEF, "error"} /\ ~Truthy(callLogs[id].recordingUrl)
                      THEN [phase |-> "loaded", id |-> id, url |-> provided]
                      ELSE [phase |-> "fetch", id |-> id,
                            logged |-> IF provided = "error"
                                       THEN "Failed to fetch recording" ELSE UNDEF]
          /\ UNCHANGED <<env, users, leads, callLogs, cache, rateLimit, now, hs>>
    \/ /\ probe.phase = "loaded"
       /\ callLogs' = [callLogs EXCEPT ![probe.id] =
                          PreSave([@ EXCEPT !.recordingUrl = probe.url], now)]
       /\ probe' = [phase |-> "fetch", id |-> probe.id,
                    logged |-> "Recording URL fetched via API"]
       /\ UNCHANGED <<env, users, leads, cache, timers, rateLimit, now, hs>>

\* GET /api/calls/:id by the call's owner, in its two steps.  On a cache
\* miss CallLog.findById reads the call with its lead populated; probe holds
\* what was read.  Then setcache stores it under call_details_<id>_<user>
\* for 600 s and the response is sent; probe.fresh tells whether what was
\* read was still what the store held at that moment.  A run has one such
\* request, for the seeded call of the agent.
GetCallDetails ==
    \/ \E id \in 1..Len(callLogs) :
          LET key == <<"call_details", ToString(id), callLogs[id].userId>>
          IN /\ probe.phase = "none"
             /\ callLogs[id].providerCallId = RichRecord.providerCallId
             /\ key \notin cache
             /\ probe' = [phase |-> "reading", id |-> id, key |-> key,
                          call |-> callLogs[id],
                          lead |-> leads[callLogs[id].leadId],
                          fresh |-> TRUE]
             /\ UNCHANGED <<env, users, leads, callLogs, cache, timers, rateLimit, now, hs>>
    \/ /\ probe.phase = "reading"
       /\ cache' = cache \cup {probe.key}
       /\ probe' = [probe EXCEPT
                       !.phase = "cached",
                       !.fresh = /\ probe.call = callLogs[probe.id]
                                 /\ probe.lead = leads[callLogs[probe.id].leadId]]
       /\ UNCHANGED <<env, users, leads, callLogs, timers, rateLimit, now, hs>>

\* The deliveries of the scenarios together with the recording fetch timers
\* that run beside the handlers.
SpecDeferred == InitScenario /\ [][Next \/ FetchRecording]_vars

\* The deliveries of the scenarios together with a reader of call details.
SpecReader == InitScenario /\ [][Next \/ GetCallDetails]_vars

(***************************************************************************)
(* Probes of the pure functions: the argument is drawn at the start and    *)
(* one step applies the function to it.                                    *)
(***************************************************************************)

\* The collections and the handlers of a process that has served no request.
Quiescent ==
    /\ users = <<AgentUser, AdminUser>>
    /\ leads = InitialLeads
    /\ callLogs = <<>>
    /\ cache = InitialCache
    /\ timers = {}
    /\ rateLimit = NoRateLimit
    /\ now = 0
    /\ hs = [h \in Handlers |-> IdleHandler]

\* Strings handed to mapSmartfloStatus.
StatusInputs ==
    { StatusMapKeys[i] : i \in 1..Len(StatusMapKeys) }
    \cup { CasedForms[i][1] : i \in 1..Len(CasedForms) }
    \cup ObjectPrototypeKeys
    \cup { "", "xyz_unexpected", "in_progress", "call.hangup", "unknown", "ok" }

InitStatus ==
    /\ Quiescent
    /\ env = StrictEnv
    /\ probe \in { [phase |-> "call", input |-> s] : s \in StatusInputs }

MapStatus ==
    /\ probe.phase = "call"
    /\ probe' = [phase |-> "return", input |-> probe.input,
                 output |-> mapSmartfloStatus(probe.input)]
    /\ UNCHANGED <<env, users, leads, callLogs, cache, timers, rateLimit, now, hs>>

NextStatus == MapStatus

SpecStatus == InitStatus /\ [][NextStatus]_vars

\* Payloads handed to the verifiers: flat bodies, the empty object, a nested
\* object, and keys out of sort order.
SigPayloads ==
    { Members(EventA), Members(EventB), Members(EventInbound), <<>>,
      << Atom("call_id", "c1"), Obj("transfer_data", <<Atom("reason", "r")>>) >>,
      << Atom("duration", "42"), Atom("call_id", "c1") >> }

\* The text a sender signs.
Serialised(form, payload) ==
    CASE form = "compact" -> StringifyCompact(payload)
      [] form = "pretty" -> StringifyPretty(payload, 0)
      [] form = "sorted" -> StringifyWithKeys(payload, SortedKeys(payload))

\* The header a sender builds: the digest under its secret, cut to `length`
\* characters, with or without the sha256= prefix and a trailing character.
SignatureOf(secret, form, payload, length, prefixed, suffix) ==
    (IF prefixed THEN <<SHA256_PREFIX>> ELSE <<>>)
    \o Substring0(Hmac(secret, Serialised(form, payload)), length)
    \o suffix

SigProbes ==
    [ phase : {"call"},
      verifier : {"verifyOutboundWebhookSignature", "verifyInboundWebhookSignature"},
      payload : SigPayloads,
      signedWith : { Secrets[i] : i \in 1..Len(Secrets) },
      form : {"compact", "pretty", "sorted"},
      length : 0..HashLen,
      prefixed : BOOLEAN,
      suffix : { <<>>, <<"0">>, <<"z">> } ]

InitSig ==
    /\ Quiescent
    /\ env \in { StrictEnv, SharedSecretEnv, NoSecretEnv }
    /\ probe \in SigProbes

VerifyProbe ==
    /\ probe.phase = "call"
    /\ LET signature == SignatureOf(probe.signedWith, probe.form, probe.payload,
                                    probe.length, probe.prefixed, probe.suffix)
       IN probe' = [probe EXCEPT
                       !.phase = IF probe.verifier = "verifyOutboundWebhookSignature"
                                 THEN IF verifyOutboundWebhookSignature(env, signature, probe.payload)
                                      THEN "accepted" ELSE "rejected"
                                 ELSE IF verifyInboundWebhookSignature(env, signature, probe.payload)
                                      THEN "accepted" ELSE "rejected"]
    /\ UNCHANGED <<env, users, leads, callLogs, cache, timers, rateLimit, now, hs>>

NextSig == VerifyProbe

SpecSig == InitSig /\ [][NextSig]_vars

\* Keys the cache may hold when smartInvalidate is called: the views the
\* read endpoints cache per user, and the sender's rate-limit counter.
CacheKeyUniverse ==
    InitialCache
    \cup { <<"call_stats", "u2", "Others", "all">>,
           <<"entry_counts", "u2", "all">>,
           RateLimitKey }

InvalidateCalls ==
    [ phase : {"call"}, dataType : {"calls", "entries", "users", "all"},
      userId : {"u1", "u2", NULL}, before : SUBSET CacheKeyUniverse ]

InitCache ==
    /\ env = StrictEnv
    /\ users = <<AgentUser, AdminUser>>
    /\ leads = InitialLeads
    /\ callLogs = <<>>
    /\ timers = {}
    /\ rateLimit = NoRateLimit
    /\ now = 0
    /\ hs = [h \in Handlers |-> IdleHandler]
    /\ probe \in InvalidateCalls
    /\ cache = probe.before

Invalidate ==
    /\ probe.phase = "call"
    /\ cache' = smartInvalidate(cache, probe.dataType, probe.userId)
    /\ probe' = [probe EXCEPT !.phase = "return"]
    /\ UNCHANGED <<env, users, leads, callLogs, timers, rateLimit, now, hs>>

SpecCache == InitCache /\ [][Invalidate]_vars

(***************************************************************************)
(* SmartfloClient.withRetry: one call, the provider operation failing or   *)
(* succeeding at each attempt.                                             *)
(***************************************************************************)

\* The largest SMARTFLO_MAX_RETRIES of a run; the default is 4.
MaxRetries == 4

\* parseInt(process.env.SMARTFLO_RETRY_BASE_MS || "500", 10)
RetryBaseMs == 500

\* The errors the provider operation rejects with: err.code, the status of
\* err.response (0 when there is no response) and err.message.
ProviderErrors ==
    { [code |-> "ECONNRESET", status |-> 0, message |-> "socket hang up"],
      [code |-> UNDEF, status |-> 0, message |-> "Smartflo login invalid response"],
      [code |-> "ERR_BAD_RESPONSE", status |-> 503, message |-> "Request failed with status code 503"],
      [code |-> "ERR_BAD_REQUEST", status |-> 429, message |-> "Request failed with status code 429"],
      [code |-> "ERR_BAD_REQUEST", status |-> 400, message |-> "Request failed with status code 400"],
      [code |-> "ERR_BAD_REQUEST", status |-> 404, message |-> "Request failed with status code 404"] }

MutRetryAll(err) == TRUE

isRetriable(err) ==
    IF err.code \in {"EAI_AGAIN", "ENOTFOUND", "ECONNRESET", "ETIMEDOUT", "ECONNABORTED"}
    THEN TRUE
    ELSE IF err.status = 0 THEN TRUE
    ELSE IF err.status >= 500 \/ err.status = 429 THEN TRUE
    ELSE FALSE

\* retryBaseMs * 2^attempt + Math.floor(Math.random() * retryBaseMs)
backoffDelay(attempt, jitter) == RetryBaseMs * (2 ^ attempt) + jitter

\* withRetry is entered: attempt = 0, lastErr undefined, nothing logged.
InitRetry ==
    /\ Quiescent
    /\ env = StrictEnv
    /\ probe \in { [ phase |-> "calling", maxRetries |-> n, attempt |-> 0,
                     lastErr |-> [code |-> UNDEF, status |-> 0, message |-> UNDEF],
                     calls |-> 0, failures |-> <<>>, delay |-> 0,
                     result |-> UNDEF ] : n \in 0..MaxRetries }

\* One turn of the while loop: the guard, await fn(), and the catch block
\* up to the timer.  calls counts the invocations of fn, failures is the
\* sequence of the errors the catch block logged.
Attempt ==
    /\ probe.phase = "calling"
    /\ IF ~(probe.attempt <= probe.maxRetries)
       THEN probe' = [probe EXCEPT !.phase = "thrown"]
       ELSE \/ probe' = [probe EXCEPT !.phase = "returned", !.calls = @ + 1,
                                      !.result = "response.data"]
            \/ \E err \in ProviderErrors, jitter \in {0, RetryBaseMs - 1} :
                  probe' = [probe EXCEPT
                      !.calls = @ + 1,
                      !.lastErr = err,
                      !.failures = Append(@, err),
                      !.phase = IF ~isRetriable(err) \/ probe.attempt = probe.maxRetries
                                THEN "thrown" ELSE "sleeping",
                      !.delay = IF ~isRetriable(err) \/ probe.attempt = probe.maxRetries
                                THEN @ ELSE backoffDelay(probe.attempt, jitter)]
    /\ UNCHANGED <<env, users, leads, callLogs, cache, timers, rateLimit, now, hs>>

\* The backoff timer fires: attempt += 1 and the loop goes round.
Backoff ==
    /\ probe.phase = "sleeping"
    /\ probe' = [probe EXCEPT !.phase = "calling", !.attempt = @ + 1]
    /\ UNCHANGED <<env, users, leads, callLogs, cache, timers, rateLimit, now, hs>>

\* The provider operation settles (axios is given a timeout) and the timer
\* fires: neither step is postponed for ever.
SpecRetry ==
    InitRetry /\ [][Attempt \/ Backoff]_vars /\ WF_vars(Attempt) /\ WF_vars(Backoff)

(***************************************************************************)
(* The webhook rate limiter on its own: one sender, the clock, and the     *)
(* cache refresh endpoint that shares the cache with the limiter.  probe   *)
(* counts what an observer of the sender counts: the requests sent, the    *)
(* end of the window that the first request after the previous window      *)
(* opened, and the requests passed on to the handlers within it.           *)
(***************************************************************************)

\* Requests the sender makes in a run.
MaxSent == 3

\* A sender the limiter has not seen, or one with a request left in the
\* window its first request opened at time 0.
InitRate ==
    /\ env = StrictEnv
    /\ users = <<AgentUser, AdminUser>>
    /\ leads = InitialLeads
    /\ callLogs = <<>>
    /\ timers = {}
    /\ now = 0
    /\ hs = [h \in Handlers |-> IdleHandler]
    /\ \/ /\ rateLimit = NoRateLimit
          /\ cache = InitialCache
          /\ probe = [phase |-> "rate", sent |-> 0, windowEnd |-> -1, passed |-> 0,
                      expires |-> 0, status |-> 0]
       \/ /\ rateLimit = LastInWindow
          /\ cache = InitialCache \cup {RateLimitKey}
          /\ probe = [phase |-> "rate", sent |-> 0,
                      windowEnd |-> LastInWindow.resetTime,
                      passed |-> LastInWindow.count,
                      expires |-> WebhookWindowMs, status |-> 200]

\* The middleware createRateLimiter returns, for a request of the sender.
\* node-cache drops the key on get once its TTL (windowMs / 1000 seconds
\* from the last set) has passed; status is 429, or 200 for next().
WebhookRequest ==
    /\ probe.phase = "rate"
    /\ probe.sent < MaxSent
    /\ LET keys == IF now > probe.expires THEN cache \ {RateLimitKey} ELSE cache
           limit == RateLimitAfter(keys, rateLimit, now)
           refused == limit.count > WebhookMaxRequests
           opens == now > probe.windowEnd
       IN /\ rateLimit' = limit
          /\ cache' = keys \cup {RateLimitKey}
          /\ probe' = [probe EXCEPT
                          !.sent = @ + 1,
                          !.expires = now + WebhookWindowMs,
                          !.windowEnd = IF opens THEN now + WebhookWindowMs ELSE @,
                          !.passed = (IF opens THEN 0 ELSE @) + (IF refused THEN 0 ELSE 1),
                          !.status = IF refused THEN 429 ELSE 200]
    /\ UNCHANGED <<env, users, leads, callLogs, timers, now, hs>>

\* Time passes, to one of the instants a run looks at: the middle of the
\* first window, its reset time, the millisecond after, a window later.
Elapse ==
    /\ probe.phase = "rate"
    /\ \E t \in { WebhookWindowMs \div 2, WebhookWindowMs, WebhookWindowMs + 1,
                  2 * WebhookWindowMs + 1 } :
          /\ t > now
          /\ now' = t
    /\ UNCHANGED <<env, users, leads, callLogs, cache, timers, rateLimit, hs, probe>>

\* POST /api/calls/refresh-cache: smartInvalidate(dataType, userId) with the
\* data type and the user id of the request body.
RefreshCache ==
    /\ probe.phase = "rate"
    /\ \E dataType \in {"calls", "all"}, userId \in {"u1", "limit"} :
          cache' = smartInvalidate(cache, dataType, userId)
    /\ UNCHANGED <<env, users, leads, callLogs, timers, rateLimit, now, hs, probe>>

SpecRate == InitRate /\ [][WebhookRequest \/ Elapse \/ RefreshCache]_vars

(***************************************************************************)
(* SmartfloClient: the token and its refresh, and makeRequest.  probe      *)
(* holds the client's fields and the position of each makeRequest call.    *)
(* A token is the number of the login that returned it, 0 is null; valid   *)
(* tells whether tokenExpiry lies ahead; a promise is the number of its    *)
(* login, and settled[k] is the state of login k.  withRetry is taken by   *)
(* its outcome: the response, or the error it throws; thrown is 401 when   *)
(* a 401 of the request left makeRequest, 1 for another request error.     *)
(***************************************************************************)

\* Concurrent callers of makeRequest, and the calls they make in a run.
MaxCallers == 2
MaxCalls == 3

Callers == 1..MaxCallers

\* The client as constructed, or holding a token of an earlier run that is
\* still valid or has expired.
InitClient ==
    /\ Quiescent
    /\ env = StrictEnv
    /\ \E held \in { [token |-> 0, valid |-> FALSE],
                      [token |-> 100, valid |-> TRUE],
                      [token |-> 100, valid |-> FALSE] } :
          probe = [ phase |-> "client", token |-> held.token, valid |-> held.valid,
                    isRefreshing |-> FALSE, refreshPromise |-> 0,
                    settled |-> <<>>, returned |-> 0, calls |-> 0,
                    callers |-> [c \in Callers |->
                                    [pc |-> "idle", promise |-> 0, got |-> 0,
                                     round |-> 0, execs |-> 0, discards |-> 0,
                                     thrown |-> 0]] ]

MutLoginPerCaller(client) ==
    IF client.token = 0 \/ ~client.valid
    THEN [client EXCEPT !.isRefreshing = TRUE,
                        !.refreshPromise = Len(client.settled) + 1,
                        !.settled = Append(@, "pending"),
                        !.returned = Len(client.settled) + 1]
    ELSE [client EXCEPT !.returned = 0]

\* ensureValidToken up to its return: the client afterwards, with returned
\* the promise handed to the caller, or 0 when this.token is returned.
EnsureValidToken(client) ==
    IF client.token = 0 \/ ~client.valid
    THEN IF client.isRefreshing /\ client.refreshPromise # 0
         THEN [client EXCEPT !.returned = client.refreshPromise]
         ELSE [client EXCEPT !.isRefreshing = TRUE,
                             !.refreshPromise = Len(client.settled) + 1,
                             !.settled = Append(@, "pending"),
                             !.returned = Len(client.settled) + 1]
    ELSE [client EXCEPT !.returned = 0]

\* The caller after `await this.ensureValidToken()` was reached in the given
\* round: waiting for the promise, or about to send the request.
AfterEnsure(caller, client, round) ==
    [caller EXCEPT !.pc = IF client.returned = 0 THEN "exec" ELSE "awaiting",
                   !.promise = client.returned,
                   !.got = IF client.returned = 0 THEN client.token ELSE 0,
                   !.round = round]

\* makeRequest is called: ensureValidToken.
MakeRequest(c) ==
    /\ probe.phase = "client"
    /\ probe.callers[c].pc \in {"idle", "returned", "thrown"}
    /\ probe.calls < MaxCalls
    /\ LET client == EnsureValidToken(probe)
           caller == [probe.callers[c] EXCEPT !.execs = 0, !.discards = 0, !.thrown = 0]
       IN probe' = [client EXCEPT !.calls = @ + 1,
                                  !.callers[c] = AfterEnsure(caller, client, 1)]
    /\ UNCHANGED <<env, users, leads, callLogs, cache, timers, rateLimit, now, hs>>

\* login() settles: with a token (whose expiry may already have passed,
\* expires_in <= 300) or with the error withRetry threw; then the then or
\* the catch callback of ensureValidToken clears the refreshing state.
LoginSettles ==
    /\ probe.phase = "client"
    /\ \E k \in 1..Len(probe.settled) :
          /\ probe.settled[k] = "pending"
          /\ \/ \E valid \in BOOLEAN :
                   probe' = [probe EXCEPT !.token = k, !.valid = valid,
                                          !.isRefreshing = FALSE, !.refreshPromise = 0,
                                          !.settled[k] = "ok"]
             \/ probe' = [probe EXCEPT !.isRefreshing = FALSE, !.refreshPromise = 0,
                                       !.settled[k] = "failed"]
    /\ UNCHANGED <<env, users, leads, callLogs, cache, timers, rateLimit, now, hs>>

\* A caller waiting for the refresh promise goes on: with the token, or the
\* login's error leaves makeRequest.
Resume(c) ==
    /\ probe.phase = "client"
    /\ probe.callers[c].pc = "awaiting"
    /\ probe.settled[probe.callers[c].promise] # "pending"
    /\ LET caller == probe.callers[c]
       IN probe' = [probe EXCEPT !.callers[c] =
                       IF probe.settled[caller.promise] = "ok"
                       THEN [caller EXCEPT !.pc = "exec", !.got = caller.promise]
                       ELSE [caller EXCEPT !.pc = "thrown"]]
    /\ UNCHANGED <<env, users, leads, callLogs, cache, timers, rateLimit, now, hs>>

MutRepeatsOnEvery401(round, err) == err.status = 401

\* Whether makeRequest catches the error and goes for a new token: only the
\* first withRetry is inside the try block.
RepeatsAfter401(round, err) == round = 1 /\ err.status = 401

\* withRetry(exec) of a caller settles: the response is returned, or the
\* error is thrown; a 401 caught discards the token and ensureValidToken is
\* called again.
Execute(c) ==
    /\ probe.phase = "client"
    /\ probe.callers[c].pc = "exec"
    /\ LET caller == [probe.callers[c] EXCEPT !.execs = @ + 1]
       IN \/ probe' = [probe EXCEPT !.callers[c] = [caller EXCEPT !.pc = "returned"]]
          \/ \E err \in ProviderErrors \cup
                         { [code |-> "ERR_BAD_REQUEST", status |-> 401,
                            message |-> "Request failed with status code 401"] } :
                IF RepeatsAfter401(caller.round, err)
                THEN LET client == EnsureValidToken([probe EXCEPT !.token = 0, !.valid = FALSE])
                     IN probe' = [client EXCEPT !.callers[c] =
                                    AfterEnsure([caller EXCEPT !.discards = @ + 1],
                                                client, caller.round + 1)]
                ELSE probe' = [probe EXCEPT !.callers[c] =
                                   [caller EXCEPT !.pc = "thrown",
                                                  !.thrown = IF err.status = 401 THEN 401 ELSE 1]]
    /\ UNCHANGED <<env, users, leads, callLogs, cache, timers, rateLimit, now, hs>>

\* axios is given a timeout and withRetry is bounded: a login and a request
\* settle, and a settled promise resumes its waiters.
SpecClient ==
    /\ InitClient
    /\ [][\/ \E c \in Callers : MakeRequest(c) \/ Resume(c) \/ Execute(c)
          \/ LoginSettles]_vars
    /\ WF_vars(LoginSettles)
    /\ \A c \in Callers : WF_vars(Resume(c)) /\ WF_vars(Execute(c))

(***************************************************************************)
(* Properties                                                              *)
(***************************************************************************)

Delivered == { h \in Handlers : hs[h].pc # "idle" }
Done(h) == hs[h].pc = "done"
Answer(h) == hs[h].responses[1]

\* The deliveries so far were handled one after another.
InSequence == \A h \in Delivered : hs[h].startedAfter = { g \in Handlers : g < h }

\* Every delivery so far carried the first one's endpoint and body.
SameEvent ==
    \A h \in Delivered :
        /\ hs[h].endpoint = hs[1].endpoint
        /\ hs[h].objectBody = hs[1].objectBody
        /\ hs[h].body = hs[1].body

\* The handler ran to its last statement.
Processed(h) ==
    /\ Done(h)
    /\ Answer(h).message \in { "Webhook processed successfully",
                               "Inbound call logged successfully" }

\* Exactly two deliveries to /call-events, handled one after the other, both
\* to the last statement.
TwoCallEvents(first, second) ==
    /\ Delivered = {1, 2}
    /\ InSequence
    /\ hs[1].endpoint = "call-events" /\ hs[1].body = first
    /\ hs[2].endpoint = "call-events" /\ hs[2].body = second
    /\ Processed(1) /\ Processed(2)

\* The status the code answers a delivery with: 429 from the rate limiter,
\* 403 from the IP whitelist, 400 from the payload validator, 401 from the
\* signature check in production, 200 otherwise.
ExpectedStatus(h) ==
    IF hs[h].gate = "rate-limited" THEN 429
    ELSE IF hs[h].gate = "ip-refused" THEN 403
    ELSE IF hs[h].gate = "bad-payload" THEN 400
    ELSE IF hs[h].disposition = "invalid" /\ env.NODE_ENV = "production" THEN 401
    ELSE 200

\* C1 as stated: every delivery to /call-events or /inbound is answered with
\* HTTP status 200.
C1_AlwaysStatus200 ==
    \A h \in Handlers : Done(h) => Answer(h).status = 200

\* C1 amended: every delivery is answered once, with 200 whatever the payload
\* and whatever fails inside the handler, except that the rate limiter
\* answers 429, the IP whitelist 403, the payload validator 400 to a body
\* that is no object, and the handler 401 when, in production with the
\* endpoint's secret set, a signature header fails verification.
C1_Status200UnlessRefused ==
    \A h \in Handlers :
        Done(h) => Len(hs[h].responses) = 1 /\ Answer(h).status = ExpectedStatus(h)

\* A delivery that reached the handler, failed inside it and was answered 200.
C1_Witness ==
    \E h \in Handlers :
        /\ Done(h) /\ hs[h].gate = "handler"
        /\ hs[h].thrown = "E11000 duplicate key error"
        /\ Answer(h).status = 200

ReplayWithCallId ==
    /\ Delivered # {}
    /\ InSequence
    /\ SameEvent
    /\ Truthy(hs[1].body["call_id"])
    /\ hs[1].created

\* The CallLog collection with the save timestamp left out.
Unstamped(records) == [i \in 1..Len(records) |-> PreSave(records[i], 0)]

C3_UniqueProviderCallId ==
    \A i, j \in 1..Len(callLogs) :
        (i # j /\ callLogs[i].providerCallId # UNDEF)
            => callLogs[i].providerCallId # callLogs[j].providerCallId

\* Two handlers ran concurrently for one first-seen call id and the second
\* insert met the unique index.
C3_Witness ==
    /\ Len(callLogs) = 1
    /\ \E h \in Handlers :
          /\ hs[h].startedAfter # { g \in Handlers : g < h }
          /\ hs[h].thrown = "E11000 duplicate key error"
          /\ hs[h].callId = callLogs[1].providerCallId

\* C4 as stated: ringing-then-completed and completed-then-ringing both leave
\* status completed and duration 42.
C4_SameStatusEitherOrder ==
    (TwoCallEvents(EventA, EventB) \/ TwoCallEvents(EventB, EventA))
        => callLogs[1].callStatus = "completed" /\ callLogs[1].duration = 42

\* C4 amended: both orders leave duration 42; the status is that of the
\* event delivered last, completed after A then B and ringing after B then A.
C4_DurationKeptStatusLast ==
    /\ TwoCallEvents(EventA, EventB)
          => callLogs[1].callStatus = "completed" /\ callLogs[1].duration = 42
    /\ TwoCallEvents(EventB, EventA)
          => callLogs[1].callStatus = "ringing" /\ callLogs[1].duration = 42

\* Completed-then-ringing, both processed.
C4_Witness ==
    /\ TwoCallEvents(EventB, EventA)
    /\ Len(callLogs) = 1
    /\ callLogs[1].duration = 42

\* C5 as stated: once the handlers of a first-seen race on /call-events have
\* finished, the record holds every field of the delivery whose insert was
\* rejected by the unique index.
C5_LoserMergesIntoRecord ==
    \A h \in Handlers :
        ( /\ \A g \in Delivered :
                /\ hs[g].endpoint = "call-events"
                /\ g # h => Processed(g)
          /\ hs[h].thrown = "E11000 duplicate key error" )
        => \E i \in 1..Len(callLogs) :
              /\ callLogs[i].providerCallId = hs[h].callId
              /\ \A field \in PayloadFields :
                    hs[h].body[field] # UNDEF
                        => callLogs[i].webhookData[field] = hs[h].body[field]

\* The signature check of a production deployment refused the delivery.
StrictRejected(h) ==
    /\ env.NODE_ENV = "production"
    /\ hs[h].disposition = "invalid"

\* The second delivery repeats the first, refused one with a valid signature.
RetryAfterRejection ==
    /\ Delivered = {1, 2}
    /\ StrictRejected(1)
    /\ SameEvent
    /\ hs[2].disposition = "verified"
    /\ Done(2)

C7_ThrowAnswered200 ==
    \A h \in Handlers :
        hs[h].thrown # UNDEF
            => /\ Done(h)
               /\ hs[h].responses =
                     << Response(200, FALSE, "Webhook received but processing failed",
                                 hs[h].thrown) >>

\* A save that schema validation rejected.
C7_Witness ==
    \E h \in Handlers :
        /\ hs[h].thrown = "CallLog validation failed"
        /\ Len(hs[h].responses) = 1

\* C8: a record created with direction outbound, then a delivery to
\* /call-events for the same call id that isInbound classifies inbound,
\* ends with direction inbound.
C8_DirectionCorrected ==
    \A first, second \in CallEventBodies :
        ( /\ TwoCallEvents(first, second)
          /\ Truthy(first["call_id"]) /\ first["call_id"] = second["call_id"]
          /\ hs[1].created
          /\ ~isInbound(first)
          /\ isInbound(second) )
        => callLogs[hs[2].docId].callDirection = "inbound"

\* The outbound event A, then the inbound-flagged event for the same call id.
C8_Witness ==
    /\ TwoCallEvents(EventA, EventInbound)
    /\ hs[1].created
    /\ hs[2].docId = 1
    /\ callLogs[1].callDirection = "inbound"

\* C9 as stated: for every string the normaliser returns one of the eight
\* canonical statuses, and initiated for a string outside the synonym table.
C9_NormalizerTotal ==
    probe.phase = "return"
        => /\ probe.output \in CanonicalStatuses
           /\ (\A i \in 1..Len(StatusMapKeys) : StatusMapKeys[i] # ToLowerCase(probe.input))
                 => probe.output = "initiated"

\* The secret a verifier reads from process.env.
SecretOf(verifier) ==
    IF verifier = "verifyOutboundWebhookSignature"
    THEN Or(env.SMARTFLO_OUTBOUND_WEBHOOK_SECRET, env.SMARTFLO_WEBHOOK_SECRET)
    ELSE Or(env.SMARTFLO_INBOUND_WEBHOOK_SECRET, env.SMARTFLO_WEBHOOK_SECRET)

\* C10: with a secret configured, both verifiers accept the HMAC of the
\* payload's JSON.stringify text under that secret with and without the
\* sha256= prefix, accept a proper prefix of that digest, and reject the
\* full digest computed with another secret.
C10_SignatureTolerance ==
    (probe.phase \in {"accepted", "rejected"} /\ Truthy(SecretOf(probe.verifier))
        /\ probe.form = "compact" /\ probe.suffix = <<>>)
    => /\ (probe.signedWith = SecretOf(probe.verifier) /\ probe.length = HashLen)
             => probe.phase = "accepted"
       /\ (probe.signedWith = SecretOf(probe.verifier)
             /\ probe.length > 0 /\ probe.length < HashLen)
             => probe.phase = "accepted"
       /\ (probe.length = HashLen
             /\ Hmac(probe.signedWith, StringifyCompact(probe.payload))
                   # Hmac(SecretOf(probe.verifier), StringifyCompact(probe.payload)))
             => probe.phase = "rejected"

\* A prefixed signature cut to half the digest, accepted.
C10_Witness ==
    /\ probe.phase = "accepted"
    /\ Truthy(SecretOf(probe.verifier))
    /\ probe.signedWith = SecretOf(probe.verifier)
    /\ probe.form = "compact" /\ probe.suffix = <<>>
    /\ probe.prefixed
    /\ probe.length = HashBytes

\* The header the probe handed to the verifier, without the sha256= prefix.
ProbedSignature ==
    NormalizeSignature(SignatureOf(probe.signedWith, probe.form, probe.payload,
                                   probe.length, probe.prefixed, probe.suffix))

\* The received signature is a candidate hash (the HMAC of the compact, the
\* pretty-printed or the key-sorted serialisation) or a non-empty prefix of one.
MatchesCandidate ==
    LET n == Len(ProbedSignature)
        alts == alternativePayloads(probe.payload)
    IN /\ n > 0 /\ n <= HashLen
       /\ \E a \in 1..Len(alts) :
              ProbedSignature = Substring0(Hmac(SecretOf(probe.verifier), alts[a]), n)

\* C11: with a secret configured, a verifier returns false only when the
\* received signature, full length or truncated, matches none of the
\* candidate hashes over the compact, pretty-printed and key-sorted
\* serialisations.
C11_RejectsOnlyUnmatched ==
    (probe.phase = "rejected" /\ Truthy(SecretOf(probe.verifier)))
        => ~MatchesCandidate

\* The key belongs to the call domain.
CallDomainKey(key) == key[1] \in {"call_history", "call_stats", "call_details"}

\* The key belongs to the entries domain.
EntriesDomainKey(key) == key[1] \in {"entries", "entry_counts"}

\* The key carries the user's id as one of its parts.
TaggedWith(key, userId) == \E i \in 2..Len(key) : key[i] = userId

\* C12: smartInvalidate('calls', u) removes every call-domain key tagged
\* with user u and leaves every key outside the call domain in the cache,
\* the entries_* and entry_counts_* keys tagged with u included.
C12_CallsInvalidationScoped ==
    (probe.phase = "return" /\ probe.dataType = "calls" /\ probe.userId # NULL)
        => /\ \A key \in probe.before :
                 (CallDomainKey(key) /\ TaggedWith(key, probe.userId)) => key \notin cache
           /\ \A key \in probe.before : ~CallDomainKey(key) => key \in cache

\* C13: after smartInvalidate(domain, u), for domain calls or entries, the
\* keys of that domain tagged with another user and not with u are still
\* in the cache.
C13_OtherUsersKept ==
    (probe.phase = "return" /\ probe.dataType \in {"calls", "entries"}
        /\ probe.userId # NULL)
        => \A key \in probe.before :
              ( /\ IF probe.dataType = "calls" THEN CallDomainKey(key)
                   ELSE EntriesDomainKey(key)
                /\ ~TaggedWith(key, probe.userId)
                /\ \E other \in {"u1", "u2"} : TaggedWith(key, other) )
              => key \in cache

\* The delivery was the only one of the run and ran without a database fault.
AloneNoFault(h) ==
    /\ Delivered = {h}
    /\ Done(h)
    /\ hs[h].thrown # "database operation failed"

\* The leads stored for a phone number.
LeadsOf(mobileNumber) ==
    { i \in 1..Len(leads) : leads[i].mobileNumber = mobileNumber }

\* C14: an inbound delivery from a number matching no lead, with a virtual
\* number and no agent field, in a deployment with an administrator, ends
\* with one new placeholder lead for the number, one inbound call record
\* linked to it and assigned to an administrator, and the lead's call counter
\* at 1, on /call-events and on /inbound alike.
C14_UnknownInboundRecorded ==
    \A h \in Handlers :
        ( /\ AloneNoFault(h)
          /\ hs[h].body \in {EventInbound, InboundUnknown}
          /\ FindAdmin # NULL )
        => \E l \in LeadsOf("p2") :
              /\ LeadsOf("p2") = {l}
              /\ leads[l].totalCallsMade = 1
              /\ \E i \in 1..Len(callLogs) :
                    /\ callLogs[i].leadId = l
                    /\ callLogs[i].callDirection = "inbound"
                    /\ callLogs[i].userId = FindAdmin
                    /\ \A j \in 1..Len(callLogs) : callLogs[j].leadId = l => j = i

\* The run started with the click-to-call record stored first and its lead
\* in the neutral status.
ClickToCallOnRecord ==
    /\ Len(callLogs) >= 2
    /\ callLogs[1].customIdentifier = ClickToCallRecord.customIdentifier
    /\ callLogs[2].providerCallId = RichRecord.providerCallId

\* C15: with the click-to-call record of token CRM_<leadId>_<timestamp> on
\* record and its lead in the neutral status, a /call-events delivery with
\* that custom_identifier, call_status completed and duration 95 is merged
\* into the record: no record is added, the record ends completed with
\* duration 95 and the lead ends in the engaged status.
C15_TokenDeliveryMerged ==
    \A h \in Handlers :
        ( /\ AloneNoFault(h)
          /\ ClickToCallOnRecord
          /\ hs[h].body \in {ScenarioEvent("token"), ScenarioEvent("token-agent")} )
        => /\ Len(callLogs) = 2
           /\ callLogs[1].callStatus = "completed"
           /\ callLogs[1].duration = 95
           /\ leads[callLogs[1].leadId].status = "Interested"

\* C16: an inbound delivery from which no phone number can be resolved is
\* still recorded: the response reports success and a call record is stored,
\* linked to a placeholder lead whose number is the sentinel Unknown.
C16_NoPhoneStillRecorded ==
    \A h \in Handlers :
        ( /\ AloneNoFault(h)
          /\ hs[h].endpoint = "call-events"
          /\ hs[h].body = ScenarioEvent("no-phone") )
        => /\ Answer(h).success
           /\ \E l \in LeadsOf("Unknown") :
                 \E i \in 1..Len(callLogs) :
                     /\ callLogs[i].leadId = l
                     /\ callLogs[i].providerCallId = "c2"

\* C17: an inbound delivery for which neither the payload's agent number
\* nor the lead's creator nor any administrator resolves to a user is still
\* stored as a call record, with a null agent.
C17_NullAgentStillRecorded ==
    \A h \in Handlers :
        ( /\ AloneNoFault(h)
          /\ hs[h].endpoint = "call-events"
          /\ hs[h].body = ScenarioEvent("known-inbound")
          /\ FindUserById(leads[FindLeadByMobile("p1")].createdBy) = NULL
          /\ FindAdmin = NULL )
        => \E i \in 1..Len(callLogs) :
              /\ callLogs[i].providerCallId = "c2"
              /\ callLogs[i].userId = NULL

\* C19: after a delivery with call_id and custom_identifier was merged into
\* the record found by customIdentifier, a later delivery with the same
\* call_id and no custom_identifier is merged into that record: no second
\* record of the call is stored.
C19_FollowUpFindsMergedRecord ==
    ( /\ TwoCallEvents(ScenarioEvent("token-agent"), ScenarioEvent("follow-up"))
      /\ ClickToCallOnRecord )
    => /\ Len(callLogs) = 2
       /\ \A i \in 1..Len(callLogs) :
              callLogs[i].providerCallId = "c2" => i = 1

\* The handler's update of its record is written, or refused, in this step.
UpdateStep(h) ==
    /\ hs[h].pc = "ce_saveUpdate"
    /\ hs'[h].pc # "ce_saveUpdate"

\* The stored value of the field is the same before and after the step.
Kept(id, field) == callLogs'[id][field] = callLogs[id][field]

\* C20: an update delivery that lacks start_time, end_time, duration,
\* recording_url, disposition, a virtual number (virtual_number,
\* called_number and agent_number all missing) or queue_id, or carries it
\* empty, leaves the stored value of that field of the record unchanged.
C20_AbsentFieldsKept ==
    [][\A h \in Handlers :
          UpdateStep(h) =>
             LET body == hs[h].body
                 id == hs[h].docId
             IN /\ ~Truthy(body["start_time"]) => Kept(id, "startTime")
                /\ ~Truthy(body["end_time"]) => Kept(id, "endTime")
                /\ ~Truthy(body["duration"]) => Kept(id, "duration")
                /\ ~Truthy(body["recording_url"]) => Kept(id, "recordingUrl")
                /\ ~Truthy(body["disposition"]) => Kept(id, "disposition")
                /\ ~Truthy(virtualNum(body)) => Kept(id, "virtualNumber")
                /\ ~Truthy(body["queue_id"]) => Kept(id, "queueId")]_vars

\* An update carrying the optional fields empty was merged into the record
\* that held all of them: the status is the delivery's, the fields are the
\* earlier ones.
C20_Witness ==
    /\ Delivered = {1}
    /\ Processed(1)
    /\ hs[1].body = ScenarioEvent("blank")
    /\ Len(callLogs) = 2
    /\ callLogs[2].callStatus = "answered"
    /\ callLogs[2].startTime = RichRecord.startTime
    /\ callLogs[2].endTime = RichRecord.endTime
    /\ callLogs[2].duration = RichRecord.duration
    /\ callLogs[2].recordingUrl = RichRecord.recordingUrl
    /\ callLogs[2].disposition = RichRecord.disposition
    /\ callLogs[2].virtualNumber = RichRecord.virtualNumber
    /\ callLogs[2].queueId = RichRecord.queueId

\* The failures the provider may recover from: a network error code, no
\* HTTP status, a status of 500 or more, status 429.
Transient(err) ==
    \/ err.code \in {"EAI_AGAIN", "ENOTFOUND", "ECONNRESET", "ETIMEDOUT", "ECONNABORTED"}
    \/ err.status = 0
    \/ err.status >= 500
    \/ err.status = 429

\* withRetry has returned a result or thrown the last error it caught.
RetrySettled ==
    \/ probe.phase = "returned" /\ probe.result # UNDEF
    \/ /\ probe.phase = "thrown"
       /\ probe.failures # <<>>
       /\ probe.lastErr = probe.failures[Len(probe.failures)]

\* Every invocation of the operation but the first followed a transient
\* failure; a failure that is not transient ended the call at once; the
\* operation was invoked at most maxRetries + 1 times.
RetryDiscipline ==
    /\ probe.calls <= probe.maxRetries + 1
    /\ \A i \in 1..Len(probe.failures) :
          i < probe.calls => Transient(probe.failures[i])
    /\ \A i \in 1..Len(probe.failures) :
          ~Transient(probe.failures[i])
             => /\ probe.phase = "thrown"
                /\ probe.calls = i
                /\ probe.lastErr = probe.failures[i]

\* C18: withRetry invokes the operation again only after a retriable
\* failure (network error code, no HTTP status, status >= 500, status 429);
\* a 4xx failure other than 429 is rethrown at once; the operation is
\* invoked at most maxRetries + 1 times; and withRetry ends with a result
\* or with the last error.
C18_BoundedRetry == [](RetryDiscipline) /\ <>(RetrySettled)

\* Every attempt failed with a transient error: the operation was invoked
\* maxRetries + 1 times and the last error was thrown.
C18_Witness ==
    /\ probe.phase = "thrown"
    /\ probe.maxRetries = MaxRetries
    /\ probe.calls = probe.maxRetries + 1
    /\ \A i \in 1..Len(probe.failures) : Transient(probe.failures[i])
    /\ probe.lastErr = probe.failures[probe.calls]

\* C21: an update delivery whose non-empty virtual number or queue id
\* differs from the non-empty value stored leaves the record with the
\* delivery's value: among non-empty values the latest wins.
C21_LatestNonEmptyWins ==
    \A h \in Handlers :
        ( /\ Delivered = {h}
          /\ Processed(h)
          /\ hs[h].body = ScenarioEvent("other-queue")
          /\ Len(callLogs) = 2
          /\ callLogs[2].providerCallId = RichRecord.providerCallId )
        => /\ callLogs[2].virtualNumber = "v2"
           /\ callLogs[2].queueId = "q2"

\* C21 (amended): an update delivery never replaces a virtual number or
\* queue id that was non-empty when the handler read the record: the value
\* stored first is kept, and the delivery's value is stored only where the
\* record read had none.
C21_FirstNonEmptyKept ==
    [][\A h \in Handlers :
          UpdateStep(h) =>
             LET id == hs[h].docId
             IN /\ Truthy(hs[h].doc.virtualNumber) => Kept(id, "virtualNumber")
                /\ Truthy(hs[h].doc.queueId) => Kept(id, "queueId")]_vars

\* The update with another virtual number and queue was merged and the
\* record still holds the values stored first.
C21_Witness ==
    /\ Delivered = {1}
    /\ Processed(1)
    /\ hs[1].body = ScenarioEvent("other-queue")
    /\ Len(callLogs) = 2
    /\ callLogs[2].callStatus = "answered"
    /\ callLogs[2].virtualNumber = RichRecord.virtualNumber
    /\ callLogs[2].queueId = RichRecord.queueId

\* The placeholder leads the handlers of the run created.
CreatedLeads == (Len(InitialLeads) + 1)..Len(leads)

\* C22: once the handlers of the deliveries so far have finished, with
\* success or with an error, every placeholder lead they created is
\* referenced by a stored call record and has a creator.
C22_NoOrphanedPlaceholder ==
    (\A h \in Delivered : Done(h))
        => \A l \in CreatedLeads :
              /\ leads[l].createdBy \notin {NULL, UNDEF}
              /\ \E i \in 1..Len(callLogs) : callLogs[i].leadId = l

\* C23: a delivery whose direction field says outbound is classified
\* outbound whatever its other fields: its record is stored as outbound.
C23_ExplicitOutboundWins ==
    \A h \in Handlers :
        ( /\ Delivered = {h}
          /\ Processed(h)
          /\ hs[h].body = ScenarioEvent("said-outbound") )
        => \E i \in 1..Len(callLogs) :
              /\ callLogs[i].providerCallId = "c2"
              /\ callLogs[i].callDirection = "outbound"

\* C24: for a first-seen delivery the owning agent is the first that
\* resolves among the user with the payload's agent number, for outbound
\* the user named by the token, the lead's creator, an administrator; the
\* order is the same for inbound and outbound.  Here: an outbound delivery
\* without agent number and token, for a lead whose creator is a user, is
\* owned by the creator.
C24_CreatorBeforeAdministrator ==
    \A h \in Handlers :
        ( /\ Delivered = {h}
          /\ Processed(h)
          /\ hs[h].body = ScenarioEvent("no-agent")
          /\ FindUserById(leads[FindLeadByMobile("p1")].createdBy) # NULL )
        => \E i \in 1..Len(callLogs) :
              /\ callLogs[i].providerCallId = "c2"
              /\ callLogs[i].userId = leads[FindLeadByMobile("p1")].createdBy

\* C25: an outbound delivery that reaches the handler and matches no call
\* record and no lead creates no record and no lead, changes no lead,
\* removes no cache key, schedules no recording fetch and is answered 200.
C25_NoMatchLeavesNoTrace ==
    \A h \in Handlers :
        ( /\ Delivered = {h}
          /\ Done(h)
          /\ hs[h].endpoint = "call-events"
          /\ hs[h].body = EventNoLead
          /\ hs[h].gate = "handler"
          /\ ~RejectedBySignature(hs[h].disposition) )
        => /\ callLogs = <<>>
           /\ leads = InitialLeads
           /\ InitialCache \subseteq cache
           /\ timers = {}
           /\ Answer(h).status = 200

\* The handler answered that no lead matches.
C25_Witness ==
    /\ Delivered = {1}
    /\ Done(1)
    /\ hs[1].body = EventNoLead
    /\ Answer(1).message = "Webhook received but no matching lead"
    /\ Answer(1).success
    /\ callLogs = <<>>
    /\ leads = InitialLeads

\* The step stores this status for the lead as the outcome of a handler's
\* completed call of that length.
AdvancedByCompletedCall(l) ==
    \E h \in Handlers :
        /\ hs[h].pc = "ce_leadSave"
        /\ hs[h].leadId = l
        /\ hs[h].doc.callStatus = "completed"
        /\ \/ hs[h].doc.duration > 60 /\ leads'[l].status = "Interested"
           \/ /\ hs[h].doc.duration > 10 /\ hs[h].doc.duration <= 60
              /\ leads'[l].status = "Maybe"

\* C26: webhook processing changes a lead's status only when it is Not
\* Found, and then only after a completed call, to Interested when the
\* duration exceeds 60 seconds and to Maybe when it exceeds 10; a lead in
\* any other status keeps it through any deliveries.
C26_StatusOnlyAdvancesFromNeutral ==
    [][\A l \in 1..Len(leads) :
          leads'[l].status # leads[l].status
             => /\ leads[l].status = "Not Found"
                /\ AdvancedByCompletedCall(l)]_vars

\* The handler's lead update is written and the delivery answered in this step.
LeadUpdateStep(h) ==
    /\ hs[h].pc = "ce_leadSave"
    /\ hs'[h].pc = "done"
    /\ hs'[h].thrown = UNDEF

\* C27: a delivery whose resulting status is no_answer or failed sets the
\* lead's scheduled callback when none is set; a callback already scheduled
\* is not overwritten, and a delivery with another resulting status sets
\* none.
C27_CallbackScheduledOnce ==
    [][\A h \in Handlers :
          LeadUpdateStep(h) =>
             LET l == hs[h].leadId
             IN IF hs[h].doc.callStatus \in {"no_answer", "failed"}
                   /\ ~Truthy(leads[l].callbackScheduled)
                THEN Truthy(leads'[l].callbackScheduled)
                ELSE leads'[l].callbackScheduled = leads[l].callbackScheduled]_vars

\* The handler's callLog.save() succeeds in this step, for a record that
\* has no fetch pending.
RecordSavedStep(h) ==
    /\ hs[h].pc \in {"ce_saveNew", "ce_saveUpdate"}
    /\ hs'[h].pc = "ce_loadLead"
    /\ hs'[h].docId \notin timers

\* A recording fetch ends in this step with the failure logged.
FetchFailedStep ==
    /\ timers' # timers
    /\ timers' \subseteq timers
    /\ probe'.phase = "fetch"
    /\ probe'.logged = "Failed to fetch recording"

\* C28: a /call-events delivery schedules a deferred recording fetch exactly
\* when the persisted record has status completed and no recording URL.
C28_FetchWhenCompletedWithoutUrl ==
    [][\A h \in Handlers :
          RecordSavedStep(h) =>
             LET id == hs'[h].docId
             IN id \in timers' <=> /\ callLogs'[id].callStatus = "completed"
                                   /\ ~Truthy(callLogs'[id].recordingUrl)]_vars

\* C28 (amended): a /call-events delivery schedules a deferred recording
\* fetch exactly when the record as the handler saved it has status
\* completed, no recording URL and a provider call id; a fetch that fails
\* changes neither the stored records nor any response.
C28_FetchWhenCompletedWithCallId ==
    [][/\ \A h \in Handlers :
             RecordSavedStep(h) =>
                LET id == hs'[h].docId
                    doc == hs'[h].doc
                IN id \in timers' <=> /\ doc.callStatus = "completed"
                                      /\ ~Truthy(doc.recordingUrl)
                                      /\ Truthy(doc.providerCallId)
       /\ FetchFailedStep => (callLogs' = callLogs /\ hs' = hs)]_vars

\* A completed call without recording was recorded and answered, its
\* fetch was scheduled and failed, and the record is as the delivery left it.
C28_Witness ==
    /\ Delivered = {1}
    /\ Processed(1)
    /\ hs[1].body = ScenarioEvent("follow-up")
    /\ Len(callLogs) = 3
    /\ callLogs[3].callStatus = "completed"
    /\ ~Truthy(callLogs[3].recordingUrl)
    /\ timers = {}
    /\ probe.phase = "fetch"
    /\ probe.id = 3
    /\ probe.logged = "Failed to fetch recording"

\* C29: the cache is invalidated after the call record and the lead update
\* are both persisted and before the response: once a delivery is answered,
\* a call's details that were current when they were cached and are still
\* in the cache hold the lead as it is stored.
C29_InvalidatedAfterLeadUpdate ==
    \A h \in Handlers :
        ( /\ Delivered = {h}
          /\ Processed(h)
          /\ probe.phase = "cached"
          /\ probe.fresh
          /\ probe.key \in cache )
        => probe.lead = leads[callLogs[probe.id].leadId]

\* C30: two distinct deliveries without call_id are given distinct
\* synthesized call ids: each is stored as a record of its own and neither
\* is merged into the other's.
C30_SynthesizedIdsDistinct ==
    ( /\ Delivered = {1, 2}
      /\ \A h \in Delivered :
            /\ Done(h)
            /\ hs[h].endpoint = "call-events"
            /\ hs[h].thrown # "database operation failed"
      /\ hs[1].body = EventNoCallId
      /\ hs[2].body = ScenarioEvent("no-call-id")
      /\ ClickToCallOnRecord )
    => /\ Len(callLogs) = 4
       /\ callLogs[3].providerCallId # callLogs[4].providerCallId

\* C32: in a production deployment with a secret for each endpoint, a
\* delivery without a signature header is not processed: as long as every
\* delivery so far came without a signature, no CallLog exists and the
\* leads are the initial ones.  (With a secret configured the check is
\* skipped, "unverified", exactly when the header is missing.)
C32_UnsignedNotProcessed ==
    ( /\ env = StrictEnv
      /\ \A h \in Delivered : hs[h].disposition \in {"unverified", UNDEF} )
    => /\ callLogs = <<>>
       /\ leads = InitialLeads

\* C33: with a secret configured, both verifiers reject, for every payload,
\* the header that is the sha256= prefix alone (an empty hex part).
C33_EmptyHexRejected ==
    ( /\ probe.phase \in {"accepted", "rejected"}
      /\ Truthy(SecretOf(probe.verifier))
      /\ probe.prefixed /\ probe.length = 0 /\ probe.suffix = <<>> )
    => probe.phase = "rejected"

\* C34: when the deliveries so far all went to /call-events, all were
\* processed to the success response and all were for calls of lead 1, the
\* lead's totalCallsMade has grown by their number, however the handlers
\* interleaved.
C34_NoLostIncrement ==
    ( \A h \in Delivered :
         /\ hs[h].endpoint = "call-events"
         /\ Processed(h)
         /\ hs[h].docId > 0
         /\ callLogs[hs[h].docId].leadId = 1 )
    => leads[1].totalCallsMade
          = InitialLeads[1].totalCallsMade + Cardinality(Delivered)

\* The deferred fetch writes the URL it obtained.
FetchSaveStep == probe.phase = "loaded" /\ probe'.phase = "fetch"

C37_StatusKeptWithoutStatus ==
    [][\A h \in Handlers :
          ( /\ UpdateStep(h)
            /\ ~Truthy(hs[h].body["call_status"])
            /\ ~Truthy(hs[h].body["event_type"]) )
          => Kept(hs[h].docId, "callStatus")]_vars

\* C38: once a record's direction is inbound, no step of any handler
\* changes it: a stored direction of inbound stays inbound.
C38_InboundStaysInbound ==
    [][\A id \in 1..Len(callLogs) :
          callLogs[id].callDirection = "inbound"
             => callLogs'[id].callDirection = "inbound"]_vars

\* An inbound call was recorded, then an event of the same call that is
\* not classified inbound was merged into its record, which is still inbound.
C38_Witness ==
    /\ TwoCallEvents(ScenarioEvent("known-inbound"), ScenarioEvent("follow-up"))
    /\ ~isInbound(ScenarioEvent("follow-up"))
    /\ hs[1].created
    /\ hs[2].docId = hs[1].docId
    /\ callLogs[hs[2].docId].callStatus = "completed"
    /\ callLogs[hs[2].docId].callDirection = "inbound"

C40_AtMostMaxPerWindow ==
    probe.phase = "rate"
        => /\ probe.passed <= WebhookMaxRequests
           /\ (probe.status = 429 => probe.passed = WebhookMaxRequests)

\* The logins in flight.
InFlight(client) == { k \in 1..Len(client.settled) : client.settled[k] = "pending" }

\* The caller's step is a call of ensureValidToken that finds the token
\* missing or expired.
FindsNoToken(c) ==
    /\ probe.callers[c].pc # "awaiting"
    /\ probe'.callers[c].pc = "awaiting"

\* C31: a 401 from the provider makes makeRequest discard the token, ask
\* for a new one and repeat the request, at most once per call: a call
\* discards the token at most once and sends at most two rounds of the
\* request, a 401 in the second round is thrown to the caller, and every
\* call of makeRequest ends.
C31_RepeatsOnceAfter401 ==
    /\ [][\A c \in Callers :
            /\ probe'.callers[c].discards <= 1
            /\ probe'.callers[c].execs <= 2
            /\ ( /\ probe.callers[c].pc = "exec"
                 /\ probe.callers[c].round = 1
                 /\ probe'.callers[c].discards = 1 )
               => /\ probe'.callers[c].pc = "awaiting"
                  /\ probe'.callers[c].round = 2
                  /\ probe'.callers[c].promise \in InFlight(probe')
            /\ ( /\ probe.callers[c].pc = "exec"
                 /\ probe.callers[c].round = 2
                 /\ probe'.callers[c] # probe.callers[c] )
               => /\ probe'.callers[c].pc \in {"returned", "thrown"}
                  /\ probe'.callers[c].discards = probe.callers[c].discards
                  /\ probe'.settled = probe.settled]_vars
    /\ \A c \in Callers :
          (probe.callers[c].pc \in {"awaiting", "exec"})
             ~> (probe.callers[c].pc \in {"returned", "thrown"})

\* A call met a 401, obtained the token of a new login, repeated the
\* request, met a second 401 and threw it.
C31_Witness ==
    \E c \in Callers :
        /\ probe.phase = "client"
        /\ probe.callers[c].pc = "thrown"
        /\ probe.callers[c].thrown = 401
        /\ probe.callers[c].round = 2
        /\ probe.callers[c].execs = 2
        /\ probe.callers[c].discards = 1
        /\ probe.callers[c].got # 0
        /\ probe.settled[probe.callers[c].got] = "ok"

\* C39: under any interleaving of callers of ensureValidToken that find the
\* token missing or expired, at most one login is in flight; a caller that
\* comes while one is in flight is handed that login's promise and starts
\* none, and a caller that waited obtains the token of the login it waited
\* for; the refreshing state is set exactly while a login is in flight, so
\* after a failed login the next such caller starts a new one.
C39_OneLoginShared ==
    [][/\ Cardinality(InFlight(probe')) <= 1
       /\ probe'.isRefreshing <=> InFlight(probe') # {}
       /\ \A c \in Callers :
             /\ FindsNoToken(c) =>
                   /\ probe'.callers[c].promise \in InFlight(probe')
                   /\ InFlight(probe) # {} => InFlight(probe') = InFlight(probe)
                   /\ InFlight(probe) = {} =>
                         Len(probe'.settled) = Len(probe.settled) + 1
             /\ ( probe.callers[c].pc = "awaiting" /\ probe'.callers[c].pc = "exec" )
                   => /\ probe'.callers[c].got = probe.callers[c].promise
                      /\ probe.settled[probe.callers[c].promise] = "ok"]_vars

\* A login failed, a later call started a second one, and both callers
\* waited for it and obtained its token.
C39_Witness ==
    /\ probe.phase = "client"
    /\ Len(probe.settled) = 2
    /\ probe.settled[1] = "failed"
    /\ probe.settled[2] = "ok"
    /\ \A c \in Callers :
          /\ probe.callers[c].pc = "exec"
          /\ probe.callers[c].promise = 2
          /\ probe.callers[c].got = 2
====
